---- MODULE Spec2Model ----
(***************************************************************************)
(* Markdown + Mermaid exporter: the command-line entry point (main), the   *)
(* editor command (exportMarkdown), the document assembler (buildHtml),    *)
(* the PDF printer (renderPdfFromHtmlFile) and the bootstrap script that   *)
(* the assembler inlines into the page (markDone and its callers).         *)
(*                                                                         *)
(* A JavaScript string is a sequence of atoms (<<"report", ".pdf">> is     *)
(* "report.pdf"); a path is a string whose first atom is a directory.      *)
(* A JavaScript value is a record [t, s]: undefined, true, or a string.    *)
(***************************************************************************)
EXTENDS Integers, Sequences, FiniteSets, TLC

\* ------------------------------------------------------------------ bounds
\* Longest completion wait, in polls of the page, that a run may configure.
MaxTimeout == 2
\* Number of distinct random temporary-file names.
MaxNonce == 1
\* Longest source text (in atoms) of a diagram block and of a title.
MaxLen == 3
\* Most blocks in a Markdown document.
MaxBlocks == 2
\* Number of PDF exports running at the same time.
MaxRuns == 2
\* Elements of a web page that are, or may become, diagram blocks.
MaxNodes == 1
\* Changes to the page by its own scripts, and key and menu events.
MaxEvents == 2

\* --------------------------------------------------------- strings, values
JsUndef == [t |-> "undefined", s |-> <<>>]
JsTrue == [t |-> "true", s |-> <<>>]
JsStr(s) == [t |-> "string", s |-> s]

\* JavaScript truthiness of undefined / true / a string ("" is falsy).
Truthy(v) == v.t = "true" \/ (v.t = "string" /\ v.s # <<>>)

\* a || b
Or(a, b) == IF Truthy(a) THEN a ELSE b

\* String(v)
String(v) ==
  CASE v.t = "string" -> v.s
    [] v.t = "true" -> <<"true">>
    [] OTHER -> <<"undefined">>

LowerAtom(a) ==
  CASE a = "PDF" -> "pdf"
    [] a = "HTML" -> "html"
    [] a = ".PDF" -> ".pdf"
    [] OTHER -> a

\* s.toLowerCase()
toLowerCase(s) == [i \in 1..Len(s) |-> LowerAtom(s[i])]

\* ------------------------------------------------------------------- paths
DirAtoms == {"/cwd/", "/docs/", "/out/", "/tmp/"}
ExtAtoms == {".md", ".pdf", ".PDF", ".html"}

IsAbsolute(p) == p # <<>> /\ p[1] \in DirAtoms

\* path.resolve(p), the working directory being /cwd/
resolve(p) == IF IsAbsolute(p) THEN p ELSE <<"/cwd/">> \o p

\* path.dirname(p) of an absolute path
dirname(p) == <<p[1]>>

\* path.extname(p): the last atom when it is an extension of a named file
extname(p) ==
  IF Len(p) >= 2 /\ p[Len(p)] \in ExtAtoms /\ p[Len(p) - 1] \notin DirAtoms
  THEN <<p[Len(p)]>>
  ELSE <<>>

\* path.basename(p, ext)
basename(p, ext) ==
  LET name == IF IsAbsolute(p) THEN SubSeq(p, 2, Len(p)) ELSE p
  IN  IF ext # <<>> /\ Len(name) >= 2 /\ <<name[Len(name)]>> = ext
      THEN SubSeq(name, 1, Len(name) - 1)
      ELSE name

\* path.join(dir, name)
join(dir, name) == dir \o name

\* p.replace(/\.pdf$/i, "")
StripPdfSuffix(p) ==
  IF p # <<>> /\ LowerAtom(p[Len(p)]) = ".pdf"
  THEN SubSeq(p, 1, Len(p) - 1)
  ELSE p

\* The intermediate HTML path of a PDF export, with a fixed temporary name.
TmpHtmlPath_fixedName(keepHtml, outPath, nonce) ==
  IF keepHtml
  THEN StripPdfSuffix(outPath) \o <<".html">>
  ELSE <<"/tmp/", "md-mermaid", ".html">>

\* The intermediate HTML path of a PDF export.
TmpHtmlPath(keepHtml, outPath, nonce) ==
  IF keepHtml
  THEN StripPdfSuffix(outPath) \o <<".html">>
  ELSE <<"/tmp/", "md-mermaid-", nonce, ".html">>

\* --------------------------------------------------------------- parseArgs
Word(s) == [dash |-> FALSE, s |-> s]
Opt(k) == [dash |-> TRUE, s |-> <<k>>]

NoOpts == [k \in {} |-> JsUndef]
SetKey(f, k, v) == [x \in DOMAIN f \cup {k} |-> IF x = k THEN v ELSE f[x]]
Get(args, k) == IF <<k>> \in DOMAIN args.opt THEN args.opt[<<k>>] ELSE JsUndef

RECURSIVE parseArgsFrom(_, _, _)
parseArgsFrom(argv, i, args) ==
  IF i > Len(argv) THEN args
  ELSE
    LET a == argv[i] IN
    IF a.dash
    THEN IF i + 1 <= Len(argv) /\ ~argv[i + 1].dash
         THEN parseArgsFrom(argv, i + 2,
                [args EXCEPT !.opt = SetKey(@, a.s, JsStr(argv[i + 1].s))])
         ELSE parseArgsFrom(argv, i + 1,
                [args EXCEPT !.opt = SetKey(@, a.s, JsTrue)])
    ELSE parseArgsFrom(argv, i + 1, [args EXCEPT !.pos = Append(@, a.s)])

parseArgs(argv) == parseArgsFrom(argv, 1, [pos |-> <<>>, opt |-> NoOpts])


\* ------------------------------------------------- text, escaping, Markdown
\* A text is a sequence of atoms.  The five characters that escaping treats
\* specially, the space, the tab and the line feed are atoms by themselves; an
\* entity is the atom & followed by the atom that names it, so "&lt;" is
\* <<"&", "lt;">>.  Any other atom is a run of ordinary characters.
Whitespace == {" ", "\t", "\n"}

\* s.replaceAll(a, rep)
RECURSIVE replaceAll(_, _, _)
replaceAll(s, a, rep) ==
  IF s = <<>> THEN <<>>
  ELSE (IF Head(s) = a THEN rep ELSE <<Head(s)>>) \o replaceAll(Tail(s), a, rep)

\* function escapeHtml(value): used for the title and the base href
escapeHtml(value) ==
  replaceAll(
    replaceAll(
      replaceAll(
        replaceAll(
          replaceAll(value, "&", <<"&", "amp;">>),
          "<", <<"&", "lt;">>),
        ">", <<"&", "gt;">>),
      "\"", <<"&", "quot;">>),
    "'", <<"&", "#39;">>)

\* md.utils.escapeHtml(str): one pass that replaces & < > " (not the
\* apostrophe)
RECURSIVE mdEscapeHtml(_)
mdEscapeHtml(str) ==
  IF str = <<>> THEN <<>>
  ELSE (CASE Head(str) = "&" -> <<"&", "amp;">>
          [] Head(str) = "<" -> <<"&", "lt;">>
          [] Head(str) = ">" -> <<"&", "gt;">>
          [] Head(str) = "\"" -> <<"&", "quot;">>
          [] OTHER -> <<Head(str)>>) \o mdEscapeHtml(Tail(str))

\* s.trim()
RECURSIVE trimStart(_)
trimStart(s) == IF s # <<>> /\ Head(s) \in Whitespace THEN trimStart(Tail(s)) ELSE s

RECURSIVE trimEnd(_)
trimEnd(s) ==
  IF s # <<>> /\ s[Len(s)] \in Whitespace THEN trimEnd(SubSeq(s, 1, Len(s) - 1)) ELSE s

trim(s) == trimEnd(trimStart(s))

\* s.split(/\s+/g)[0]: the text before the first run of whitespace
RECURSIVE splitFirst(_)
splitFirst(s) ==
  IF s = <<>> \/ Head(s) \in Whitespace THEN <<>>
  ELSE <<Head(s)>> \o splitFirst(Tail(s))

\* The Markdown source is a sequence of lines.  md.parse: the block tokens of
\* the document.  A line that starts with the fence marker opens a fenced
\* block whose info string is the rest of the line; the block's content is
\* every following line, each with its line feed, up to a line that holds only
\* the marker (or to the end of the document).  The marker is three backticks
\* or three tildes; it is written ~~~ here.
FenceMarker == "~~~"

IsFenceOpen(line) == line # <<>> /\ Head(line) = FenceMarker
IsFenceClose(line) == IsFenceOpen(line) /\ trim(Tail(line)) = <<>>
IsBlank(line) == trim(line) = <<>>

RECURSIVE fenceContent(_, _)
\* the content of a fenced block whose first content line is lines[i]
fenceContent(lines, i) ==
  IF i > Len(lines) \/ IsFenceClose(lines[i]) THEN <<>>
  ELSE lines[i] \o <<"\n">> \o fenceContent(lines, i + 1)

RECURSIVE fenceEnd(_, _)
\* the index of the line after that block
fenceEnd(lines, i) ==
  IF i > Len(lines) THEN i
  ELSE IF IsFenceClose(lines[i]) THEN i + 1
  ELSE fenceEnd(lines, i + 1)

RECURSIVE untilBlank(_, _)
\* the index of the first blank line at or after lines[i]
untilBlank(lines, i) ==
  IF i > Len(lines) \/ IsBlank(lines[i]) THEN i ELSE untilBlank(lines, i + 1)

RECURSIVE joinLines(_, _, _)
joinLines(lines, i, j) ==
  IF i >= j THEN <<>> ELSE lines[i] \o <<"\n">> \o joinLines(lines, i + 1, j)

RECURSIVE mdParseFrom(_, _)
mdParseFrom(lines, i) ==
  IF i > Len(lines) THEN <<>>
  ELSE LET line == lines[i] IN
    IF IsBlank(line) THEN mdParseFrom(lines, i + 1)
    ELSE IF IsFenceOpen(line)
    THEN <<[type |-> "fence", info |-> Tail(line),
            content |-> fenceContent(lines, i + 1)]>>
         \o mdParseFrom(lines, fenceEnd(lines, i + 1))
    ELSE IF Head(line) = "#"
    THEN <<[type |-> "heading", info |-> <<>>, content |-> trim(Tail(line))]>>
         \o mdParseFrom(lines, i + 1)
    ELSE IF Head(line) = "<"
    THEN <<[type |-> "html_block", info |-> <<>>,
            content |-> joinLines(lines, i, untilBlank(lines, i))]>>
         \o mdParseFrom(lines, untilBlank(lines, i))
    ELSE <<[type |-> "paragraph", info |-> <<>>, content |-> line]>>
         \o mdParseFrom(lines, i + 1)

mdParse(markdown) == mdParseFrom(markdown, 1)

\* One piece of the rendered body: an element with its class and its inner
\* HTML, or markup passed through as written (html: true).
Piece(tag, class, inner) == [tag |-> tag, class |-> class, inner |-> inner]

\* defaultFence: <pre><code class="language-x">escaped content</code></pre>
defaultFence(token) ==
  LET lang == splitFirst(trim(token.info)) IN
  Piece("pre>code", IF lang = <<>> THEN <<>> ELSE <<"language-">> \o lang,
        mdEscapeHtml(token.content))

\* md.renderer.rules.fence with the info string compared as a whole
fence_wholeInfo(token) ==
  LET info == trim(token.info) IN
  IF info = <<"mermaid">>
  THEN Piece("pre", <<"mermaid">>, mdEscapeHtml(token.content))
  ELSE defaultFence(token)

\* md.renderer.rules.fence with the tag looked for anywhere in the info string
fence_anyWord(token) ==
  IF \E i \in 1..Len(token.info) : token.info[i] = "mermaid"
  THEN Piece("pre", <<"mermaid">>, mdEscapeHtml(token.content))
  ELSE defaultFence(token)

\* md.renderer.rules.fence with the content inserted as it is
fence_noEscape(token) ==
  LET info == splitFirst(trim(token.info)) IN
  IF info = <<"mermaid">>
  THEN Piece("pre", <<"mermaid">>, token.content)
  ELSE defaultFence(token)

\* md.renderer.rules.fence
fence(token) ==
  LET info == splitFirst(trim(token.info)) IN
  IF info = <<"mermaid">>
  THEN Piece("pre", <<"mermaid">>, mdEscapeHtml(token.content))
  ELSE defaultFence(token)

\* the renderer's rule for a token
renderToken(token) ==
  CASE token.type = "fence" -> fence(token)
    [] token.type = "heading" -> Piece("h1", <<>>, mdEscapeHtml(token.content))
    [] token.type = "html_block" -> Piece("", <<>>, token.content)
    [] OTHER -> Piece("p", <<>>, mdEscapeHtml(token.content))

\* md.render(markdown): one piece per block token
mdRender(markdown) ==
  LET tokens == mdParse(markdown) IN [i \in 1..Len(tokens) |-> renderToken(tokens[i])]

\* The page as the browser parses it.  The number of places where `needle`
\* occurs in `s`:
CountSub(s, needle) ==
  Cardinality({i \in 1..(Len(s) - Len(needle) + 1) :
                 SubSeq(s, i, i + Len(needle) - 1) = needle})

\* document.querySelectorAll(".mermaid").length: the elements the body's
\* pieces are, and the elements that tags inside their inner HTML make
ClassMermaid == <<"class=", "\"", "mermaid", "\"">>

RECURSIVE DiagramElements(_)
DiagramElements(body) ==
  IF body = <<>> THEN 0
  ELSE (IF Head(body).class = <<"mermaid">> THEN 1 ELSE 0)
       + CountSub(Head(body).inner, ClassMermaid)
       + DiagramElements(Tail(body))


\* ------------------------------------------------------------------ inputs
\* Command lines: <input> [--format v] [--out v] [--keep-html], and the same
\* with the input last.
InputParts == {<<>>, <<Word(<<"doc", ".md">>)>>, <<Word(<<"/docs/", "notes", ".md">>)>>}
FormatParts ==
  {<<>>, <<Opt("format")>>} \cup
  {<<Opt("format"), Word(v)>> : v \in {<<"html">>, <<"pdf">>, <<"PDF">>, <<"docx">>, <<>>}}
OutParts ==
  {<<>>} \cup
  {<<Opt("out"), Word(v)>> :
     v \in {<<"report", ".pdf">>, <<"/out/", "final", ".PDF">>, <<"book">>}}
KeepParts == {<<>>, <<Opt("keep-html")>>}
Argvs ==
  {i \o f \o o \o k : i \in InputParts, f \in FormatParts, o \in OutParts, k \in KeepParts}
  \cup
  {k \o i : k \in KeepParts \ {<<>>}, i \in InputParts \ {<<>>}}

\* What the editor hands to exportMarkdown: the command's format, the active
\* document, and the keepHtml setting.
EditorFormats == {<<"html">>, <<"pdf">>}
EditorDocs == {"file", "untitled", "none"}
EditorInputPaths == {<<"/docs/", "notes", ".md">>}
EditorOutputPaths ==
  {<<"/docs/", "notes", ".pdf">>, <<"/out/", "final", ".PDF">>, <<"/out/", "book">>,
   <<"/docs/", "notes", ".html">>}

\* Extra command lines: the display options, and a title.
ThemeParts ==
  {<<>>} \cup {<<Opt("mermaid-theme"), Word(<<v>>)>> : v \in {"dark", "neon"}}
SecurityParts ==
  {<<>>} \cup {<<Opt("security"), Word(<<v>>)>> : v \in {"loose", "sandbox"}}
OptionArgvs ==
  {<<Word(<<"doc", ".md">>), Opt("format"), Word(<<"pdf">>)>> \o t \o s :
     t \in ThemeParts, s \in SecurityParts}

\* The editor's settings for the two display options.
EditorThemes == {<<"default">>, <<"forest">>, <<"neon">>}
EditorSecurityLevels == {<<"strict">>, <<"antiscript">>, <<"sandbox">>}

\* Source texts of a diagram block or a title: every text of at most MaxLen
\* atoms over the special characters, an entity name and an ordinary one.
SourceAtoms == {"&", "<", ">", "\"", "'", "lt;", "A"}
SourceTexts == UNION {[1..n -> SourceAtoms] : n \in 0..MaxLen}

\* Markdown documents: at most MaxBlocks blocks, a blank line after each.
FlowchartLine == <<"flowchart", " ", "LR">>
EdgeLine == <<"A--", ">", "B">>
FenceInfos ==
  {<<>>, <<"mermaid">>, <<" ", "mermaid", " ", "{a}">>, <<"Mermaid">>,
   <<"mermaid-x">>, <<"js", " ", "mermaid">>}
FenceContents == {<<>>, <<EdgeLine>>, <<FlowchartLine, EdgeLine>>}
FencedBlock(info, content) == <<<<FenceMarker>> \o info>> \o content \o <<<<FenceMarker>>>>
HeadingBlock == <<<<"#", " ", "T">>>>
HtmlDiagramBlock ==
  <<<<"<", "div", " ", "class=", "\"", "mermaid", "\"", ">">> \o EdgeLine \o <<"<", "/div", ">">>>>
Blocks ==
  {FencedBlock(i, c) : i \in FenceInfos, c \in FenceContents}
  \cup {HeadingBlock, <<<<"text">>>>, HtmlDiagramBlock,
        <<<<FenceMarker, "mermaid">>, EdgeLine>>}

\* The blocks of the documents that are also printed: a diagram, a fence
\* that is no diagram, a heading, and a diagram written as HTML.
PageBlocks ==
  {FencedBlock(<<"mermaid">>, <<EdgeLine>>),
   FencedBlock(<<"js", " ", "mermaid">>, <<EdgeLine>>),
   HeadingBlock, HtmlDiagramBlock}

\* The documents of at most n of the blocks, a blank line after each.
RECURSIVE DocsOf(_, _)
DocsOf(blocks, n) ==
  IF n = 0 THEN {<<>>}
  ELSE DocsOf(blocks, n - 1)
         \cup {d \o b \o <<<<>>>> : d \in DocsOf(blocks, n - 1), b \in blocks}

Docs == DocsOf(Blocks, MaxBlocks)
PageDocs == DocsOf(PageBlocks, MaxBlocks)

\* The document of section 8 of the specification: a heading, then one
\* mermaid fence with two lines.
ExampleMarkdown ==
  <<<<"#", " ", "T">>, <<FenceMarker, "mermaid">>, FlowchartLine, EdgeLine, <<FenceMarker>>>>

\* A document made of one mermaid fence whose only line is `text`.
FenceDoc(text) == <<<<FenceMarker, "mermaid">>, text, <<FenceMarker>>>>

\* Installed assets: the stylesheet and the diagram runtime script.  The
\* runtime script's text decides which API the page's global `mermaid` has.
CssAssets == {"missing", "present"}
MermaidAssets == {"missing", "unreadable", "empty", "v10", "v9", "api", "bare"}
InputKinds == {"file", "dir", "missing"}
Nonces == {ToString(n) : n \in 1..MaxNonce}

NoPath == <<>>
NoHtml ==
  [made |-> FALSE, css |-> "", mermaidJs |-> "", theme |-> <<>>,
   securityLevel |-> <<>>, title |-> <<>>, titleHtml |-> <<>>, base |-> <<>>,
   body |-> <<>>]

\* ------------------------------------------------------------------- state
VARIABLES
  host,       \* "cli" (main) or "editor" (exportMarkdown)
  argv,       \* process.argv.slice(2)
  ed,         \* editor inputs: [format, doc, keepHtml, mermaidTheme, securityLevel]
  env,        \* [inputKind, css, mermaid, timeoutMs, markdown]
  pc,         \* position of the run
  loc,        \* local variables of main / exportMarkdown / renderPdfFromHtmlFile
  files,      \* files written by the run that exist: path -> [kind, html]
  written,    \* every path the run has written to
  msgs,       \* console.error lines and editor notifications, in order
  browser,    \* "none", "open", "closed"
  pdfCalled,  \* page.pdf has been called
  err,        \* the error being thrown, or the reason of process.exit(1)
  exitCode,   \* -1 while the process runs
  page,       \* the page in the browser: window.__MERMAID_* and the bootstrap
  polls,      \* time spent in page.waitForFunction
  \* several PDF exports at once, on one machine:
  runs,       \* run -> its position and local variables
  disk,       \* the HTML files on storage: path -> the run that wrote the content
  procs,      \* the browser processes ever launched: pid -> "running" / "exited"
  foreign,    \* every access of a run to another run's file or browser
  \* the browser content script, on one page:
  runScheduled,   \* let runScheduled
  mermaidReady,   \* let mermaidReady: "null", or the state of the promise
  windowMermaid,  \* window.mermaid is defined
  contextTarget,  \* let contextTarget: a node, or 0 for null
  mq,             \* the microtask queue of the page, in order
  dom,            \* node -> what the element is now
  styles,         \* the style element of ensureStyles exists
  passes,         \* the render passes: [at, nodes]; a new pass takes the place
                  \* of one that is over
  warned,         \* console.warn of the catch block has been called
  events          \* number of page changes and input events so far

\* The variables of one export, and of the exports running together.
mainVars ==
  <<host, argv, ed, env, pc, loc, files, written, msgs, browser, pdfCalled,
    err, exitCode, page, polls>>
concVars == <<runs, disk, procs, foreign>>
csVars ==
  <<runScheduled, mermaidReady, windowMermaid, contextTarget, mq, dom, styles,
    passes, warned, events>>
aside == <<concVars, csVars>>

vars == <<mainVars, aside>>

NoLoc ==
  [format |-> <<>>, inputPath |-> NoPath, outPath |-> NoPath, tmpHtmlPath |-> NoPath,
   keepHtml |-> FALSE, timeoutMs |-> 0, html |-> NoHtml,
   mermaidOk |-> "unread", mermaidErr |-> "unread", unlink |-> "none"]

NoPage ==
  [loaded |-> FALSE, js |-> "", promise |-> "none", reason |-> "",
   handled |-> FALSE, DONE |-> FALSE, OK |-> "unset", ERROR |-> "unset",
   markDoneCalls |-> 0, initCalls |-> 0, runCalls |-> 0,
   containers |-> 0, rendered |-> 0, initTheme |-> <<>>, initSecurity |-> <<>>]

NoEd ==
  [format |-> <<"html">>, doc |-> "file", keepHtml |-> FALSE,
   mermaidTheme |-> <<"default">>, securityLevel |-> <<"strict">>]

Envs ==
  [inputKind : InputKinds, css : CssAssets, mermaid : MermaidAssets,
   timeoutMs : 1..MaxTimeout, markdown : {ExampleMarkdown}]

\* Everything installed, the input a file.
PlainEnv(mermaid, markdown) ==
  [inputKind |-> "file", css |-> "present", mermaid |-> mermaid, timeoutMs |-> 1,
   markdown |-> markdown]

\* No exports running together.
ConcIdle ==
  /\ runs = <<>>
  /\ disk = [p \in {} |-> 0]
  /\ procs = <<>>
  /\ foreign = {}

\* The content script is not running.
ScriptIdle ==
  /\ runScheduled = FALSE /\ mermaidReady = "null" /\ windowMermaid = FALSE
  /\ contextTarget = 0 /\ mq = <<>> /\ dom = <<>> /\ styles = FALSE
  /\ passes = <<>> /\ warned = FALSE /\ events = 0

\* The runs: every command line and editor command over every environment
\* with the example document; the display options; and, with everything
\* installed, every document and every title.
Init ==
  /\ \/ /\ host = "cli" /\ pc = "main" /\ ed = NoEd
        /\ \/ argv \in Argvs /\ env \in Envs
           \/ argv \in OptionArgvs /\ env = PlainEnv("v10", ExampleMarkdown)
           \/ /\ argv = <<Word(<<"doc", ".md">>)>>
              /\ \E d \in Docs : env = PlainEnv("v10", d)
           \/ /\ argv = <<Word(<<"doc", ".md">>), Opt("format"), Word(<<"pdf">>)>>
              /\ \E d \in PageDocs, m \in {"v10", "v9"} : env = PlainEnv(m, d)
           \/ \E text \in SourceTexts \ {<<>>} :
                /\ argv = <<Word(<<"doc", ".md">>), Opt("title"), Word(text)>>
                /\ env = PlainEnv("v10", FenceDoc(text))
     \/ /\ host = "editor" /\ argv = <<>> /\ pc = "export"
        /\ \/ /\ env \in Envs /\ env.inputKind = "file"
              /\ ed \in [format : EditorFormats, doc : EditorDocs, keepHtml : BOOLEAN,
                          mermaidTheme : {<<"default">>}, securityLevel : {<<"strict">>}]
           \/ /\ env = PlainEnv("v10", ExampleMarkdown)
              /\ ed \in [format : {<<"pdf">>}, doc : {"file"}, keepHtml : {FALSE},
                          mermaidTheme : EditorThemes,
                          securityLevel : EditorSecurityLevels]
  /\ loc = NoLoc
  /\ files = [p \in {} |-> 0]
  /\ written = {}
  /\ msgs = <<>>
  /\ browser = "none"
  /\ pdfCalled = FALSE
  /\ err = "none"
  /\ exitCode = -1
  /\ page = NoPage
  /\ polls = 0
  /\ ConcIdle
  /\ ScriptIdle

Msg(ch, tag, detail) == [ch |-> ch, tag |-> tag, detail |-> detail]
HasMsg(ch, tag) == \E i \in 1..Len(msgs) : msgs[i].ch = ch /\ msgs[i].tag = tag

\* fs.writeFile(p, content)
WriteFile(fs, p, content) == [q \in DOMAIN fs \cup {p} |-> IF q = p THEN content ELSE fs[q]]
\* fs.unlink(p)
Unlink(fs, p) == [q \in DOMAIN fs \ {p} |-> fs[q]]

HtmlFile(html) == [kind |-> "html", html |-> html]
PdfFile(kind) == [kind |-> kind, html |-> NoHtml]
\* the saved text of the input document
MarkdownFile == [kind |-> "markdown", html |-> NoHtml]

\* --------------------------------------------------------------- buildHtml
\* The stylesheet degrades to "", the runtime script is required.
ReadCss(css) == IF css = "present" THEN "github-markdown-light.css" ELSE ""

buildHtml_emptyRuntime(inputPath, markdown, title, mermaidTheme, securityLevel, assets) ==
  [ok |-> TRUE, error |-> "none",
   html |-> [made |-> TRUE, css |-> ReadCss(assets.css),
             mermaidJs |-> IF assets.mermaid \in {"missing", "unreadable", "empty"}
                           THEN "" ELSE assets.mermaid,
             theme |-> mermaidTheme, securityLevel |-> securityLevel,
             title |-> title, titleHtml |-> escapeHtml(title),
             base |-> dirname(resolve(inputPath)), body |-> mdRender(markdown)]]

buildHtml_cssFatal(inputPath, markdown, title, mermaidTheme, securityLevel, assets) ==
  IF assets.mermaid \in {"missing", "unreadable"} \/ assets.css # "present"
  THEN [ok |-> FALSE, error |-> "mermaid-missing", html |-> NoHtml]
  ELSE [ok |-> TRUE, error |-> "none",
        html |-> [made |-> TRUE, css |-> ReadCss(assets.css),
                  mermaidJs |-> IF assets.mermaid = "empty" THEN "" ELSE assets.mermaid,
                  theme |-> mermaidTheme, securityLevel |-> securityLevel,
                  title |-> title, titleHtml |-> escapeHtml(title),
                  base |-> dirname(resolve(inputPath)), body |-> mdRender(markdown)]]

buildHtml(inputPath, markdown, title, mermaidTheme, securityLevel, assets) ==
  IF assets.mermaid \in {"missing", "unreadable"}
  THEN [ok |-> FALSE, error |-> "mermaid-missing", html |-> NoHtml]
  ELSE [ok |-> TRUE, error |-> "none",
        html |-> [made |-> TRUE, css |-> ReadCss(assets.css),
                  mermaidJs |-> IF assets.mermaid = "empty" THEN "" ELSE assets.mermaid,
                  theme |-> mermaidTheme, securityLevel |-> securityLevel,
                  title |-> title, titleHtml |-> escapeHtml(title),
                  base |-> dirname(resolve(inputPath)), body |-> mdRender(markdown)]]


\* ----------------------------------------------------- main (command line)
args == parseArgs(argv)

\* process.exit(code) after a console.error line
ProcessExit(code, tag, reason) ==
  /\ msgs' = Append(msgs, Msg("stderr", tag, reason))
  /\ exitCode' = code
  /\ err' = reason
  /\ pc' = "exited"

\* String(args.format || "html").toLowerCase()
FormatOf(a) == toLowerCase(String(Or(Get(a, "format"), JsStr(<<"html">>))))

\* format !== "html" && format !== "pdf"
FormatRejected_onlyDocx(format) == format = <<"docx">>

FormatRejected(format) == format # <<"html">> /\ format # <<"pdf">>

\* parseArgs, the input check and fs.stat
MainStart ==
  /\ host = "cli" /\ pc = "main"
  /\ LET inputPath == IF Len(args.pos) > 0 THEN args.pos[1] ELSE <<>> IN
     IF inputPath = <<>>
     THEN /\ ProcessExit(1, "usage", "no-input")
          /\ UNCHANGED loc
     ELSE IF env.inputKind # "file"
          THEN /\ ProcessExit(1, "input-not-found", "input-not-found")
               /\ UNCHANGED loc
          ELSE /\ loc' = [loc EXCEPT !.inputPath = resolve(inputPath)]
               /\ pc' = "main_format"
               /\ UNCHANGED <<msgs, exitCode, err>>
  /\ UNCHANGED <<aside, host, argv, ed, env, files, written, browser, pdfCalled, page, polls>>

\* the format check, the options, and fs.readFile of the input
MainFormat ==
  /\ host = "cli" /\ pc = "main_format"
  /\ LET format == FormatOf(args) IN
     IF FormatRejected(format)
     THEN /\ ProcessExit(1, "bad-format", "bad-format")
          /\ UNCHANGED loc
     ELSE /\ loc' = [loc EXCEPT !.format = format,
                                !.keepHtml = Truthy(Get(args, "keep-html")),
                                !.timeoutMs = env.timeoutMs]
          /\ \E readOk \in BOOLEAN :
               IF readOk
               THEN pc' = "main_build" /\ err' = err
               ELSE pc' = "main_catch" /\ err' = "read-failed"
          /\ UNCHANGED <<msgs, exitCode>>
  /\ UNCHANGED <<aside, host, argv, ed, env, files, written, browser, pdfCalled, page, polls>>

\* buildHtml and the output path
MainBuild ==
  /\ host = "cli" /\ pc = "main_build"
  /\ LET absInput == loc.inputPath
         title == IF Truthy(Get(args, "title")) THEN String(Get(args, "title"))
                  ELSE basename(absInput, <<>>)
         mermaidTheme == String(Or(Get(args, "mermaid-theme"), JsStr(<<"default">>)))
         securityLevel == String(Or(Get(args, "security"), JsStr(<<"strict">>)))
         r == buildHtml(absInput, env.markdown, title, mermaidTheme, securityLevel, env)
         defaultOut ==
           join(<<"/cwd/">>,
                basename(absInput, extname(absInput)) \o
                  (IF loc.format = <<"html">> THEN <<".html">> ELSE <<".pdf">>))
         outPath == resolve(String(Or(Get(args, "out"), JsStr(defaultOut))))
     IN IF r.ok
        THEN /\ loc' = [loc EXCEPT !.html = r.html, !.outPath = outPath]
             /\ pc' = "main_write"
             /\ err' = err
        ELSE /\ pc' = "main_catch"
             /\ err' = r.error
             /\ UNCHANGED loc
  /\ UNCHANGED <<aside, host, argv, ed, env, files, written, msgs, browser, pdfCalled,
                 exitCode, page, polls>>

\* ... printing the written HTML whatever the format
MainWrite_alwaysPrint ==
  /\ host = "cli" /\ pc = "main_write"
  /\ \E writeOk \in BOOLEAN :
       IF writeOk
       THEN /\ files' = WriteFile(files, loc.outPath, HtmlFile(loc.html))
            /\ written' = written \cup {loc.outPath}
            /\ loc' = [loc EXCEPT !.tmpHtmlPath = loc.outPath]
            /\ pc' = "import"
            /\ UNCHANGED <<err, msgs>>
       ELSE /\ pc' = "main_catch"
            /\ err' = "write-failed"
            /\ UNCHANGED <<files, written, msgs, loc>>
  /\ UNCHANGED <<aside, host, argv, ed, env, browser, pdfCalled, exitCode, page, polls>>

\* format html: write the output.  format pdf: write the intermediate HTML.
MainWrite ==
  /\ host = "cli" /\ pc = "main_write"
  /\ IF loc.format = <<"html">>
     THEN \E writeOk \in BOOLEAN :
            IF writeOk
            THEN /\ files' = WriteFile(files, loc.outPath, HtmlFile(loc.html))
                 /\ written' = written \cup {loc.outPath}
                 /\ msgs' = Append(msgs, Msg("stderr", "wrote-html", "none"))
                 /\ pc' = "main_return"
                 /\ UNCHANGED <<err, loc>>
            ELSE /\ pc' = "main_catch"
                 /\ err' = "write-failed"
                 /\ UNCHANGED <<files, written, msgs, loc>>
     ELSE \E nonce \in Nonces, writeOk \in BOOLEAN :
            LET tmpHtmlPath == TmpHtmlPath(loc.keepHtml, loc.outPath, nonce) IN
            IF writeOk
            THEN /\ files' = WriteFile(files, tmpHtmlPath, HtmlFile(loc.html))
                 /\ written' = written \cup {tmpHtmlPath}
                 /\ loc' = [loc EXCEPT !.tmpHtmlPath = tmpHtmlPath]
                 /\ pc' = "import"
                 /\ UNCHANGED <<err, msgs>>
            ELSE /\ pc' = "main_catch"
                 /\ err' = "write-failed"
                 /\ UNCHANGED <<files, written, msgs, loc>>
  /\ UNCHANGED <<aside, host, argv, ed, env, browser, pdfCalled, exitCode, page, polls>>

\* after renderPdfFromHtmlFile: the log lines of a successful print, then the
\* finally block, which awaits fs.unlink unless the HTML is kept
MainAfterRender_noUnlinkOnError ==
  /\ host = "cli" /\ pc = "after_render"
  /\ msgs' = IF err # "none" THEN msgs
             ELSE IF loc.keepHtml
                  THEN msgs \o <<Msg("stderr", "wrote-pdf", "none"),
                                 Msg("stderr", "kept-html", "none")>>
                  ELSE Append(msgs, Msg("stderr", "wrote-pdf", "none"))
  /\ pc' = IF err # "none" THEN "main_catch"
           ELSE IF ~loc.keepHtml THEN "main_unlink" ELSE "main_return"
  /\ UNCHANGED <<aside, host, argv, ed, env, loc, files, written, browser, pdfCalled,
                 err, exitCode, page, polls>>

MainAfterRender ==
  /\ host = "cli" /\ pc = "after_render"
  /\ msgs' = IF err # "none" THEN msgs
             ELSE IF loc.keepHtml
                  THEN msgs \o <<Msg("stderr", "wrote-pdf", "none"),
                                 Msg("stderr", "kept-html", "none")>>
                  ELSE Append(msgs, Msg("stderr", "wrote-pdf", "none"))
  /\ pc' = IF ~loc.keepHtml THEN "main_unlink"
           ELSE IF err = "none" THEN "main_return" ELSE "main_catch"
  /\ UNCHANGED <<aside, host, argv, ed, env, loc, files, written, browser, pdfCalled,
                 err, exitCode, page, polls>>

\* await fs.unlink(tmpHtmlPath).catch(() => {}): a failure is swallowed
MainUnlink ==
  /\ host = "cli" /\ pc = "main_unlink"
  /\ \E unlinkOk \in BOOLEAN :
       /\ files' = IF unlinkOk THEN Unlink(files, loc.tmpHtmlPath) ELSE files
       /\ loc' = [loc EXCEPT !.unlink = IF unlinkOk THEN "done" ELSE "failed"]
  /\ pc' = IF err = "none" THEN "main_return" ELSE "main_catch"
  /\ UNCHANGED <<aside, host, argv, ed, env, written, msgs, browser, pdfCalled, err,
                 exitCode, page, polls>>

\* main() resolved: the process ends with code 0
MainReturn ==
  /\ host = "cli" /\ pc = "main_return"
  /\ exitCode' = 0
  /\ pc' = "exited"
  /\ UNCHANGED <<aside, host, argv, ed, env, loc, files, written, msgs, browser,
                 pdfCalled, err, page, polls>>

\* main().catch: print the stack, process.exit(1)
MainCatch_exitZero ==
  /\ host = "cli" /\ pc = "main_catch"
  /\ msgs' = Append(msgs, Msg("stderr", "fatal", err))
  /\ exitCode' = 0
  /\ pc' = "exited"
  /\ UNCHANGED <<aside, host, argv, ed, env, loc, files, written, browser, pdfCalled,
                 err, page, polls>>

MainCatch ==
  /\ host = "cli" /\ pc = "main_catch"
  /\ msgs' = Append(msgs, Msg("stderr", "fatal", err))
  /\ exitCode' = 1
  /\ pc' = "exited"
  /\ UNCHANGED <<aside, host, argv, ed, env, loc, files, written, browser, pdfCalled,
                 err, page, polls>>


\* ------------------------------------------------- exportMarkdown (editor)
\* ensureInputFile: the saved document, a save dialog for an untitled
\* document, or an open dialog.
\* A document of a file is saved first when it is modified; the text of an
\* untitled document is written to the path chosen in the save dialog.
ExportStart ==
  /\ host = "editor" /\ pc = "export"
  /\ \E choice \in {"path", "cancel", "fail"}, p \in EditorInputPaths, isDirty \in BOOLEAN :
       /\ choice = "cancel" => ed.doc # "file"
       /\ choice = "fail" => ed.doc = "untitled"
       /\ CASE choice = "path" ->
                 /\ loc' = [loc EXCEPT !.inputPath = p, !.format = ed.format]
                 /\ pc' = "export_output"
                 /\ err' = err
                 /\ IF ed.doc = "untitled" \/ (ed.doc = "file" /\ isDirty)
                    THEN /\ files' = WriteFile(files, p, MarkdownFile)
                         /\ written' = written \cup {p}
                    ELSE UNCHANGED <<files, written>>
            [] choice = "cancel" ->
                 /\ pc' = "returned"
                 /\ UNCHANGED <<loc, err, files, written>>
            [] choice = "fail" ->
                 /\ pc' = "rejected"
                 /\ err' = "save-failed"
                 /\ UNCHANGED <<loc, files, written>>
  /\ UNCHANGED <<aside, host, argv, ed, env, msgs, browser, pdfCalled,
                 exitCode, page, polls>>

\* resolveOutputPath (save dialog) and the configuration
ExportResolveOutput ==
  /\ host = "editor" /\ pc = "export_output"
  /\ \/ /\ pc' = "returned"
        /\ UNCHANGED loc
     \/ \E p \in EditorOutputPaths :
          /\ loc' = [loc EXCEPT !.outPath = p, !.keepHtml = ed.keepHtml,
                                !.timeoutMs = env.timeoutMs]
          /\ pc' = "export_read"
  /\ UNCHANGED <<aside, host, argv, ed, env, files, written, msgs, browser, pdfCalled,
                 err, exitCode, page, polls>>

\* try { fs.readFile(inputPath)
ExportRead ==
  /\ host = "editor" /\ pc = "export_read"
  /\ \E readOk \in BOOLEAN :
       IF readOk
       THEN pc' = "export_build" /\ err' = err
       ELSE pc' = "export_catch" /\ err' = "read-failed"
  /\ UNCHANGED <<aside, host, argv, ed, env, loc, files, written, msgs, browser,
                 pdfCalled, exitCode, page, polls>>

\* buildHtml
ExportBuild ==
  /\ host = "editor" /\ pc = "export_build"
  /\ LET r == buildHtml(loc.inputPath, env.markdown, basename(loc.inputPath, <<>>),
                        ed.mermaidTheme, ed.securityLevel, env)
     IN IF r.ok
        THEN /\ loc' = [loc EXCEPT !.html = r.html]
             /\ pc' = "export_mkdir"
             /\ err' = err
        ELSE /\ pc' = "export_catch"
             /\ err' = r.error
             /\ UNCHANGED loc
  /\ UNCHANGED <<aside, host, argv, ed, env, files, written, msgs, browser, pdfCalled,
                 exitCode, page, polls>>

\* fs.mkdir(path.dirname(outputPath), { recursive: true })
ExportMkdir ==
  /\ host = "editor" /\ pc = "export_mkdir"
  /\ \E mkdirOk \in BOOLEAN :
       IF mkdirOk
       THEN pc' = "export_write" /\ err' = err
       ELSE pc' = "export_catch" /\ err' = "mkdir-failed"
  /\ UNCHANGED <<aside, host, argv, ed, env, loc, files, written, msgs, browser,
                 pdfCalled, exitCode, page, polls>>

\* format html: write the output.  format pdf: write the intermediate HTML.
ExportWrite ==
  /\ host = "editor" /\ pc = "export_write"
  /\ IF loc.format = <<"html">>
     THEN \E writeOk \in BOOLEAN :
            IF writeOk
            THEN /\ files' = WriteFile(files, loc.outPath, HtmlFile(loc.html))
                 /\ written' = written \cup {loc.outPath}
                 /\ msgs' = Append(msgs, Msg("info", "exported-html", "none"))
                 /\ pc' = "returned"
                 /\ UNCHANGED <<err, loc>>
            ELSE /\ pc' = "export_catch"
                 /\ err' = "write-failed"
                 /\ UNCHANGED <<files, written, msgs, loc>>
     ELSE \E nonce \in Nonces, writeOk \in BOOLEAN :
            LET tmpHtmlPath == TmpHtmlPath(loc.keepHtml, loc.outPath, nonce) IN
            IF writeOk
            THEN /\ files' = WriteFile(files, tmpHtmlPath, HtmlFile(loc.html))
                 /\ written' = written \cup {tmpHtmlPath}
                 /\ loc' = [loc EXCEPT !.tmpHtmlPath = tmpHtmlPath]
                 /\ pc' = "import"
                 /\ UNCHANGED <<err, msgs>>
            ELSE /\ pc' = "export_catch"
                 /\ err' = "write-failed"
                 /\ UNCHANGED <<files, written, msgs, loc>>
  /\ UNCHANGED <<aside, host, argv, ed, env, browser, pdfCalled, exitCode, page, polls>>

\* ... with a finally block that runs only after a successful print
ExportAfterRender_noUnlinkOnError ==
  /\ host = "editor" /\ pc = "after_render"
  /\ msgs' = IF err # "none" THEN msgs
             ELSE IF loc.keepHtml
                  THEN msgs \o <<Msg("info", "exported-pdf", "none"),
                                 Msg("info", "kept-html", "none")>>
                  ELSE Append(msgs, Msg("info", "exported-pdf", "none"))
  /\ pc' = IF err # "none" THEN "export_catch"
           ELSE IF ~loc.keepHtml THEN "export_unlink" ELSE "returned"
  /\ UNCHANGED <<aside, host, argv, ed, env, loc, files, written, browser, pdfCalled,
                 err, exitCode, page, polls>>

\* after renderPdfFromHtmlFile: the notifications of a successful print, then
\* the finally block, which awaits fs.unlink unless the HTML is kept
ExportAfterRender ==
  /\ host = "editor" /\ pc = "after_render"
  /\ msgs' = IF err # "none" THEN msgs
             ELSE IF loc.keepHtml
                  THEN msgs \o <<Msg("info", "exported-pdf", "none"),
                                 Msg("info", "kept-html", "none")>>
                  ELSE Append(msgs, Msg("info", "exported-pdf", "none"))
  /\ pc' = IF ~loc.keepHtml THEN "export_unlink"
           ELSE IF err = "none" THEN "returned" ELSE "export_catch"
  /\ UNCHANGED <<aside, host, argv, ed, env, loc, files, written, browser, pdfCalled,
                 err, exitCode, page, polls>>

\* await fs.unlink(tmpHtmlPath).catch(() => {}): a failure is swallowed
ExportUnlink ==
  /\ host = "editor" /\ pc = "export_unlink"
  /\ \E unlinkOk \in BOOLEAN :
       /\ files' = IF unlinkOk THEN Unlink(files, loc.tmpHtmlPath) ELSE files
       /\ loc' = [loc EXCEPT !.unlink = IF unlinkOk THEN "done" ELSE "failed"]
  /\ pc' = IF err = "none" THEN "returned" ELSE "export_catch"
  /\ UNCHANGED <<aside, host, argv, ed, env, written, msgs, browser, pdfCalled, err,
                 exitCode, page, polls>>

\* catch (error) { showErrorMessage }
ExportCatch ==
  /\ host = "editor" /\ pc = "export_catch"
  /\ msgs' = Append(msgs, Msg("error", "export-failed", err))
  /\ pc' = "returned"
  /\ UNCHANGED <<aside, host, argv, ed, env, loc, files, written, browser, pdfCalled,
                 err, exitCode, page, polls>>


\* --------------------------------------------------- renderPdfFromHtmlFile
RenderFrame ==
  UNCHANGED <<aside, host, argv, ed, env, written, msgs, exitCode>>

\* await import("puppeteer")
RenderImport ==
  /\ pc = "import"
  /\ \E importOk \in BOOLEAN :
       IF importOk
       THEN pc' = "launch" /\ err' = err
       ELSE pc' = "after_render" /\ err' = "puppeteer-missing"
  /\ RenderFrame
  /\ UNCHANGED <<loc, files, browser, pdfCalled, page, polls>>

\* await puppeteer.launch(launchOpts)
RenderLaunch ==
  /\ pc = "launch"
  /\ \E launchOk \in BOOLEAN :
       IF launchOk
       THEN pc' = "newPage" /\ browser' = "open" /\ err' = err
       ELSE pc' = "after_render" /\ browser' = browser /\ err' = "launch-failed"
  /\ RenderFrame
  /\ UNCHANGED <<loc, files, pdfCalled, page, polls>>

\* await browser.newPage()
RenderNewPage ==
  /\ pc = "newPage"
  /\ \E newPageOk \in BOOLEAN :
       IF newPageOk
       THEN pc' = "goto" /\ err' = err
       ELSE pc' = "render_finally" /\ err' = "newPage-failed"
  /\ RenderFrame
  /\ UNCHANGED <<loc, files, browser, pdfCalled, page, polls>>

\* await page.goto(url, { waitUntil: "networkidle0" }): resolves once the
\* page's scripts have run
RenderGoto ==
  /\ pc = "goto"
  /\ \/ page.loaded /\ pc' = "wait" /\ err' = err
     \/ pc' = "render_finally" /\ err' = "goto-failed"
  /\ polls' = 0
  /\ RenderFrame
  /\ UNCHANGED <<loc, files, browser, pdfCalled, page>>

\* page.waitForFunction(() => window.__MERMAID_DONE === true, { timeout }):
\* a poll that finds the flag unset
RenderWaitPoll ==
  /\ pc = "wait"
  /\ ~page.DONE
  /\ polls < loc.timeoutMs
  /\ polls' = polls + 1
  /\ RenderFrame
  /\ UNCHANGED <<pc, err, loc, files, browser, pdfCalled, page>>

\* ... returning at the first poll, whatever the flag
RenderWaitDone_firstPoll ==
  /\ pc = "wait"
  /\ pc' = "evalOk"
  /\ RenderFrame
  /\ UNCHANGED <<err, loc, files, browser, pdfCalled, page, polls>>

\* ... the poll that finds the flag set
RenderWaitDone ==
  /\ pc = "wait"
  /\ page.DONE
  /\ pc' = "evalOk"
  /\ RenderFrame
  /\ UNCHANGED <<err, loc, files, browser, pdfCalled, page, polls>>

\* ... the timeout elapses with the flag unset: TimeoutError
RenderWaitTimeout_printAnyway ==
  /\ pc = "wait"
  /\ ~page.DONE
  /\ polls >= loc.timeoutMs
  /\ pc' = "pdf"
  /\ RenderFrame
  /\ UNCHANGED <<err, loc, files, browser, pdfCalled, page, polls>>

RenderWaitTimeout ==
  /\ pc = "wait"
  /\ ~page.DONE
  /\ polls >= loc.timeoutMs
  /\ pc' = "render_finally"
  /\ err' = "TimeoutError"
  /\ RenderFrame
  /\ UNCHANGED <<loc, files, browser, pdfCalled, page, polls>>

\* mermaidOk = await page.evaluate(() => Boolean(window.__MERMAID_OK))
RenderEvalOk ==
  /\ pc = "evalOk"
  /\ \E evalOk \in BOOLEAN :
       IF evalOk
       THEN /\ loc' = [loc EXCEPT !.mermaidOk = IF page.OK = "true" THEN "true" ELSE "false"]
            /\ pc' = "evalErr"
            /\ err' = err
       ELSE /\ pc' = "render_finally"
            /\ err' = "evaluate-failed"
            /\ UNCHANGED loc
  /\ RenderFrame
  /\ UNCHANGED <<files, browser, pdfCalled, page, polls>>

\* mermaidErr = await page.evaluate(() => window.__MERMAID_ERROR || null),
\* then the warning when !mermaidOk
RenderEvalErr_failOnDiagramError ==
  /\ pc = "evalErr"
  /\ \E evalOk \in BOOLEAN :
       IF evalOk
       THEN /\ loc' = [loc EXCEPT !.mermaidErr =
                         IF page.ERROR \in {"unset", ""} THEN "null" ELSE page.ERROR]
            /\ msgs' = msgs
            /\ pc' = IF loc.mermaidOk = "false" THEN "render_finally" ELSE "pdf"
            /\ err' = IF loc.mermaidOk = "false" THEN "mermaid-failed" ELSE err
       ELSE /\ pc' = "render_finally"
            /\ err' = "evaluate-failed"
            /\ UNCHANGED <<loc, msgs>>
  /\ UNCHANGED <<aside, host, argv, ed, env, written, exitCode>>
  /\ UNCHANGED <<files, browser, pdfCalled, page, polls>>

RenderEvalErr ==
  /\ pc = "evalErr"
  /\ \E evalOk \in BOOLEAN :
       IF evalOk
       THEN /\ loc' = [loc EXCEPT !.mermaidErr =
                         IF page.ERROR \in {"unset", ""} THEN "null" ELSE page.ERROR]
            /\ msgs' = IF loc.mermaidOk = "false"
                       THEN Append(msgs, Msg("stderr", "warn", loc'.mermaidErr))
                       ELSE msgs
            /\ pc' = "pdf"
            /\ err' = err
       ELSE /\ pc' = "render_finally"
            /\ err' = "evaluate-failed"
            /\ UNCHANGED <<loc, msgs>>
  /\ UNCHANGED <<aside, host, argv, ed, env, written, exitCode>>
  /\ UNCHANGED <<files, browser, pdfCalled, page, polls>>

\* await page.pdf({ path: outPdfPath, ... }); a failed print may leave a
\* truncated file behind
RenderPdf ==
  /\ pc = "pdf"
  /\ pdfCalled' = TRUE
  /\ \E result \in {"ok", "failed", "failed-truncated"} :
       /\ files' = CASE result = "ok" -> WriteFile(files, loc.outPath, PdfFile("pdf"))
                     [] result = "failed-truncated" ->
                          WriteFile(files, loc.outPath, PdfFile("pdf-truncated"))
                     [] OTHER -> files
       /\ written' = IF result = "failed" THEN written ELSE written \cup {loc.outPath}
       /\ err' = IF result = "ok" THEN err ELSE "pdf-failed"
  /\ pc' = "render_finally"
  /\ UNCHANGED <<aside, host, argv, ed, env, loc, msgs, browser, exitCode, page, polls>>

\* finally { await browser.close() }
RenderFinally_closeOnSuccessOnly ==
  /\ pc = "render_finally"
  /\ browser' = IF err = "none" THEN "closed" ELSE browser
  /\ pc' = "after_render"
  /\ RenderFrame
  /\ UNCHANGED <<err, loc, files, pdfCalled, page, polls>>

RenderFinally ==
  /\ pc = "render_finally"
  /\ browser' = "closed"
  /\ pc' = "after_render"
  /\ RenderFrame
  /\ UNCHANGED <<err, loc, files, pdfCalled, page, polls>>


\* ------------------------------------------ the bootstrap script in the page
\* The API of the global `mermaid` that the inlined runtime script defines.
Lib(js) ==
  [defined |-> js # "",
   initialize |-> js \in {"v10", "v9"},
   apiInitialize |-> js \in {"v10", "v9", "api"},
   run |-> js = "v10",
   init |-> js \in {"v10", "v9", "api"}]

\* Values a library call can throw or reject with ("" is a falsy value).
ThrownValues == {"Error: render failed", ""}

\* function markDone(ok, err)
markDone_alwaysOk(pg, ok, e) ==
  [pg EXCEPT !.DONE = TRUE, !.OK = "true",
             !.ERROR = IF e # "" THEN e ELSE @,
             !.markDoneCalls = @ + 1]

markDone(pg, ok, e) ==
  [pg EXCEPT !.DONE = TRUE, !.OK = ok,
             !.ERROR = IF e # "" THEN e ELSE @,
             !.markDoneCalls = @ + 1]

\* The synchronous part of the script, once `mermaid` is known to be defined:
\* initialize, then run / init / reject
BootstrapBody(pg, lib, init) ==
  LET callsInit == lib.initialize \/ lib.apiInitialize
      pg1 == IF callsInit
             THEN [pg EXCEPT !.initCalls = @ + 1, !.initTheme = init.theme,
                             !.initSecurity = init.securityLevel]
             ELSE pg
      \* mermaid.run / mermaid.init over document.querySelectorAll(".mermaid")
      pg2 == [pg1 EXCEPT !.runCalls = @ + 1, !.rendered = pg.containers]
  IN  {markDone(pg1, "false", e) : e \in {x \in ThrownValues : callsInit}}
      \cup
      (IF lib.run
       THEN {markDone(pg2, "false", e) : e \in ThrownValues}
            \cup {[pg2 EXCEPT !.promise = "pending"]}
       ELSE IF lib.init
       THEN {markDone(pg2, "false", e) : e \in ThrownValues}
            \cup {[pg2 EXCEPT !.promise = "fulfilled"]}
       ELSE {[pg1 EXCEPT !.promise = "rejected",
                         !.reason = "Error: Unknown Mermaid API (no run/init found)"]})

\* The script runs while the page loads, on the file that page.goto opens.
BootstrapRun_noReturn ==
  /\ pc = "goto" /\ browser = "open"
  /\ ~page.loaded
  /\ loc.tmpHtmlPath \in DOMAIN files
  /\ LET html == files[loc.tmpHtmlPath].html
         js == html.mermaidJs
         init == [securityLevel |-> html.securityLevel, theme |-> html.theme]
         pg == [page EXCEPT !.loaded = TRUE, !.js = js,
                            !.containers = DiagramElements(html.body)]
     IN IF ~Lib(js).defined
        THEN page' = markDone(markDone(pg, "false", "Mermaid failed to load"),
                              "false", "ReferenceError: mermaid is not defined")
        ELSE page' \in BootstrapBody(pg, Lib(js), init)
  /\ UNCHANGED <<aside, host, argv, ed, env, pc, loc, files, written, msgs, browser,
                 pdfCalled, err, exitCode, polls>>

BootstrapRun ==
  /\ pc = "goto" /\ browser = "open"
  /\ ~page.loaded
  /\ loc.tmpHtmlPath \in DOMAIN files
  /\ LET html == files[loc.tmpHtmlPath].html
         js == html.mermaidJs
         init == [securityLevel |-> html.securityLevel, theme |-> html.theme]
         pg == [page EXCEPT !.loaded = TRUE, !.js = js,
                            !.containers = DiagramElements(html.body)]
     IN IF ~Lib(js).defined
        THEN page' = markDone(pg, "false", "Mermaid failed to load")
        ELSE page' \in BootstrapBody(pg, Lib(js), init)
  /\ UNCHANGED <<aside, host, argv, ed, env, pc, loc, files, written, msgs, browser,
                 pdfCalled, err, exitCode, polls>>

\* The promise returned by mermaid.run settles (if it ever does).
RenderSettles ==
  /\ browser = "open"
  /\ page.promise = "pending"
  /\ \/ page' = [page EXCEPT !.promise = "fulfilled"]
     \/ \E e \in ThrownValues : page' = [page EXCEPT !.promise = "rejected", !.reason = e]
  /\ UNCHANGED <<aside, host, argv, ed, env, pc, loc, files, written, msgs, browser,
                 pdfCalled, err, exitCode, polls>>

\* .then(function () { markDone(true); })
BootstrapThen ==
  /\ browser = "open"
  /\ page.promise = "fulfilled" /\ ~page.handled
  /\ page' = markDone([page EXCEPT !.handled = TRUE], "true", "")
  /\ UNCHANGED <<aside, host, argv, ed, env, pc, loc, files, written, msgs, browser,
                 pdfCalled, err, exitCode, polls>>

\* .catch(function (e) { console.error(e); markDone(false, e); })
BootstrapCatch ==
  /\ browser = "open"
  /\ page.promise = "rejected" /\ ~page.handled
  /\ page' = markDone([page EXCEPT !.handled = TRUE], "false", page.reason)
  /\ UNCHANGED <<aside, host, argv, ed, env, pc, loc, files, written, msgs, browser,
                 pdfCalled, err, exitCode, polls>>

\* --------------------------------------------- PDF exports running together
\* Each run is the PDF path of main (or of exportMarkdown) from the write of
\* the intermediate HTML on; the runs share the storage and the machine's
\* processes, and nothing else.
Runs == 1..MaxRuns
\* The exports that may run together: without retention; with retention to
\* the same output, to an output that differs in its suffix only, and to
\* another output.
RunConfigs ==
  {[keepHtml |-> FALSE, outPath |-> <<"/out/", "final", ".pdf">>],
   [keepHtml |-> TRUE, outPath |-> <<"/out/", "final", ".pdf">>],
   [keepHtml |-> TRUE, outPath |-> <<"/out/", "final", ".PDF">>],
   [keepHtml |-> TRUE, outPath |-> <<"/cwd/", "report", ".pdf">>]}
\* md-mermaid-${Date.now()}-${Math.random()...}: the name run r draws, which
\* no other run draws
RunNonce(r) == ToString(r)

NoRun ==
  [pc |-> "write", keepHtml |-> FALSE, outPath |-> NoPath, nonce |-> "",
   tmpHtmlPath |-> NoPath, browser |-> 0, loaded |-> 0]

MainIdle ==
  /\ host = "none" /\ argv = <<>> /\ ed = NoEd
  /\ env = PlainEnv("v10", ExampleMarkdown)
  /\ pc = "idle" /\ loc = NoLoc
  /\ files = [p \in {} |-> 0] /\ written = {} /\ msgs = <<>>
  /\ browser = "none" /\ pdfCalled = FALSE /\ err = "none" /\ exitCode = -1
  /\ page = NoPage /\ polls = 0

ConcInit ==
  /\ MainIdle
  /\ ScriptIdle
  /\ runs \in [Runs -> {[NoRun EXCEPT !.keepHtml = c.keepHtml, !.outPath = c.outPath] :
                          c \in RunConfigs}]
  /\ disk = [p \in {} |-> 0]
  /\ procs = <<>>
  /\ foreign = {}

\* The runs, other than r, whose intermediate HTML file is at path p.
OwnersOf(p, r) ==
  {q \in Runs \ {r} : runs[q].tmpHtmlPath = p /\ runs[q].pc # "done"}

Access(op, r, owners) == {[op |-> op, by |-> r, of |-> q] : q \in owners}

\* const tmpHtmlPath = ...; await fs.writeFile(tmpHtmlPath, html, "utf8")
RunWrite(r) ==
  /\ runs[r].pc = "write"
  /\ \E writeOk \in BOOLEAN :
       LET nonce == RunNonce(r)
           tmpHtmlPath == TmpHtmlPath(runs[r].keepHtml, runs[r].outPath, nonce) IN
       IF writeOk
       THEN /\ disk' = WriteFile(disk, tmpHtmlPath, r)
            /\ runs' = [runs EXCEPT ![r].tmpHtmlPath = tmpHtmlPath, ![r].nonce = nonce,
                                    ![r].pc = "import"]
            /\ foreign' = foreign \cup Access("write", r, OwnersOf(tmpHtmlPath, r))
       ELSE /\ runs' = [runs EXCEPT ![r].pc = "done"]
            /\ UNCHANGED <<disk, foreign>>
  /\ UNCHANGED <<mainVars, csVars, procs>>

\* await import("puppeteer")
RunImport(r) ==
  /\ runs[r].pc = "import"
  /\ \E importOk \in BOOLEAN :
       runs' = IF importOk THEN [runs EXCEPT ![r].pc = "launch"]
               ELSE [runs EXCEPT ![r].pc = "after_render"]
  /\ UNCHANGED <<mainVars, csVars, disk, procs, foreign>>

\* const browser = await puppeteer.launch(launchOpts): a new process
RunLaunch(r) ==
  /\ runs[r].pc = "launch"
  /\ \E launchOk \in BOOLEAN :
       IF launchOk
       THEN /\ procs' = Append(procs, "running")
            /\ runs' = [runs EXCEPT ![r].browser = Len(procs) + 1, ![r].pc = "goto"]
       ELSE /\ runs' = [runs EXCEPT ![r].pc = "after_render"]
            /\ UNCHANGED procs
  /\ UNCHANGED <<mainVars, csVars, disk, foreign>>

\* browser.newPage() and page.goto(pathToFileURL(htmlFilePath).href): the
\* browser reads whatever is at the path now
RunGoto(r) ==
  /\ runs[r].pc = "goto"
  /\ \E gotoOk \in BOOLEAN :
       IF gotoOk /\ runs[r].tmpHtmlPath \in DOMAIN disk
       THEN /\ runs' = [runs EXCEPT ![r].loaded = disk[runs[r].tmpHtmlPath],
                                    ![r].pc = "print"]
            /\ foreign' = foreign \cup
                 Access("read", r, {disk[runs[r].tmpHtmlPath]} \ {r})
       ELSE /\ runs' = [runs EXCEPT ![r].pc = "render_finally"]
            /\ UNCHANGED foreign
  /\ UNCHANGED <<mainVars, csVars, disk, procs>>

\* waitForFunction, the two page.evaluate calls and page.pdf
RunPrint(r) ==
  /\ runs[r].pc = "print"
  /\ runs' = [runs EXCEPT ![r].pc = "render_finally"]
  /\ UNCHANGED <<mainVars, csVars, disk, procs, foreign>>

\* finally { await browser.close() }: the process this run launched
RunClose(r) ==
  /\ runs[r].pc = "render_finally"
  /\ procs' = [procs EXCEPT ![runs[r].browser] = "exited"]
  /\ foreign' = foreign \cup
       Access("close", r, {q \in Runs \ {r} : runs[q].browser = runs[r].browser})
  /\ runs' = [runs EXCEPT ![r].pc = "after_render"]
  /\ UNCHANGED <<mainVars, csVars, disk>>

\* finally { if (!keepHtml) await fs.unlink(tmpHtmlPath).catch(() => {}) }
RunUnlink(r) ==
  /\ runs[r].pc = "after_render"
  /\ IF runs[r].keepHtml
     THEN UNCHANGED <<disk, foreign>>
     ELSE \E unlinkOk \in BOOLEAN :
            IF unlinkOk /\ runs[r].tmpHtmlPath \in DOMAIN disk
            THEN /\ disk' = Unlink(disk, runs[r].tmpHtmlPath)
                 /\ foreign' = foreign \cup
                      Access("delete", r, OwnersOf(runs[r].tmpHtmlPath, r))
            ELSE UNCHANGED <<disk, foreign>>
  /\ runs' = [runs EXCEPT ![r].pc = "done"]
  /\ UNCHANGED <<mainVars, csVars, procs>>

ConcNext ==
  \E r \in Runs :
    \/ RunWrite(r) \/ RunImport(r) \/ RunLaunch(r) \/ RunGoto(r)
    \/ RunPrint(r) \/ RunClose(r) \/ RunUnlink(r)

ConcSpec == ConcInit /\ [][ConcNext]_vars


\* ------------------------------------------------- the browser content script
\* The page runs one task at a time and, after each task, the queued
\* microtasks in order: the callback queued by renderMermaid, the mutation
\* observer's callback, and the continuations of the awaits of a pass.
Nodes == 1..MaxNodes
\* An element: absent, a code block that a selector of MERMAID_SELECTORS
\* matches, a <pre> holding a fenced block, a plain <div>, a container
\* (class mermaid) not yet drawn, a container drawn by mermaid.run and not
\* marked, or a container marked done.
NodeKinds == {"none", "code", "fenced", "div", "pending", "drawn", "done"}

Item(kind, pass, ok) == [kind |-> kind, pass |-> pass, ok |-> ok]
Queued(kind) == {i \in 1..Len(mq) : mq[i].kind = kind}

\* A childList change under document.documentElement: the observer's callback
\* is queued once for all changes not yet delivered.
Notify(q, changed) ==
  IF changed /\ ~\E i \in 1..Len(q) : q[i].kind = "observer"
  THEN Append(q, Item("observer", 0, TRUE))
  ELSE q

\* renderMermaid without the runScheduled test
renderMermaid_noGuard(scheduled, q) ==
  [runScheduled |-> TRUE, mq |-> Append(q, Item("render", 0, TRUE))]

\* if (runScheduled) return; runScheduled = true; queueMicrotask(...)
renderMermaid(scheduled, q) ==
  IF scheduled
  THEN [runScheduled |-> scheduled, mq |-> q]
  ELSE [runScheduled |-> TRUE, mq |-> Append(q, Item("render", 0, TRUE))]

\* processCodeBlocks: replaceWithMermaid on every matching element
processCodeBlocks(d) == [n \in DOMAIN d |-> IF d[n] = "code" THEN "pending" ELSE d[n]]

\* processFencedMarkdown: replaceWithMermaid on every <pre> holding a fence
processFencedMarkdown(d) ==
  [n \in DOMAIN d |-> IF d[n] = "fenced" THEN "pending" ELSE d[n]]

\* promoteToMermaid: class mermaid, data-mermaid-renderer = "pending", and the
\* text set again; what mermaid.run has processed stays processed
promoteToMermaid(d, n) ==
  [d EXCEPT ![n] = IF d[n] \in {"drawn", "done"} THEN "drawn" ELSE "pending"]

\* document.querySelectorAll(".mermaid:not([data-mermaid-renderer='done'])")
NotDone(d) == {n \in DOMAIN d : d[n] \in {"pending", "drawn"}}

ScriptInit ==
  /\ MainIdle /\ ConcIdle
  /\ runScheduled = FALSE /\ mermaidReady = "null" /\ windowMermaid = FALSE
  /\ contextTarget = 0
  /\ mq = <<Item("script", 0, TRUE)>>
  /\ dom \in [Nodes -> {"none", "code", "fenced", "div"}]
  /\ styles = FALSE /\ passes = <<>> /\ warned = FALSE /\ events = 0

\* the script body: observer.observe(...); renderMermaid()
ScriptStart ==
  /\ mq # <<>> /\ Head(mq).kind = "script"
  /\ LET r == renderMermaid(runScheduled, Tail(mq)) IN
       runScheduled' = r.runScheduled /\ mq' = r.mq
  /\ UNCHANGED <<mainVars, concVars, warned, mermaidReady, windowMermaid, contextTarget, dom,
                 styles, passes, events>>

\* new MutationObserver(() => { renderMermaid(); })
ObserverCallback ==
  /\ mq # <<>> /\ Head(mq).kind = "observer"
  /\ LET r == renderMermaid(runScheduled, Tail(mq)) IN
       runScheduled' = r.runScheduled /\ mq' = r.mq
  /\ UNCHANGED <<mainVars, concVars, warned, mermaidReady, windowMermaid, contextTarget, dom,
                 styles, passes, events>>

\* the queued callback, up to its first await: runScheduled = false, the two
\* process functions, the pending containers, ensureStyles, and
\* ensureMermaidLoaded
RenderMicrotask ==
  /\ mq # <<>> /\ Head(mq).kind = "render"
  /\ runScheduled' = FALSE
  /\ LET d == processFencedMarkdown(processCodeBlocks(dom))
         nodes == NotDone(d)
         load == ~windowMermaid /\ mermaidReady = "null"
         settled == windowMermaid \/ mermaidReady \in {"resolved", "rejected"}
         q == Notify(Tail(mq), d # dom \/ (nodes # {} /\ (~styles \/ load)))
     IN /\ dom' = d
        /\ IF nodes = {}
           THEN /\ mq' = q
                /\ UNCHANGED <<styles, mermaidReady, passes>>
           ELSE LET over == {p \in 1..Len(passes) : passes[p].at = "over"}
                    place == IF over = {} THEN Len(passes) + 1
                             ELSE CHOOSE p \in over : \A o \in over : p <= o
                    pass == [at |-> "load", nodes |-> nodes]
                IN /\ styles' = TRUE
                   /\ mermaidReady' = IF load THEN "pending" ELSE mermaidReady
                   /\ passes' = IF over = {} THEN Append(passes, pass)
                                 ELSE [passes EXCEPT ![place] = pass]
                   /\ mq' = IF settled
                            THEN Append(q, Item("afterLoad", place, TRUE))
                            ELSE q
  /\ UNCHANGED <<mainVars, concVars, warned, windowMermaid, contextTarget, events>>

\* script.onload / script.onerror: mermaidReady settles, and every pass
\* awaiting it continues
LoadSettles ==
  /\ mq = <<>> /\ mermaidReady = "pending"
  /\ \E outcome \in {"mermaid", "undefined", "error"} :
       /\ mermaidReady' = IF outcome = "error" THEN "rejected" ELSE "resolved"
       /\ windowMermaid' = (outcome = "mermaid")
  /\ LET waiting == {p \in 1..Len(passes) : passes[p].at = "load"}
         Resume[k \in 0..Len(passes)] ==
           IF k = 0 THEN <<>>
           ELSE IF k \in waiting THEN Append(Resume[k - 1], Item("afterLoad", k, TRUE))
                ELSE Resume[k - 1]
     IN mq' = Resume[Len(passes)]
  /\ UNCHANGED <<mainVars, concVars, warned, runScheduled, contextTarget, dom, styles, passes,
                 events>>

\* after await ensureMermaidLoaded(): the catch, the return when there is no
\* mermaid, or mermaid.initialize and the call of mermaid.run
AfterLoad ==
  /\ mq # <<>> /\ Head(mq).kind = "afterLoad"
  /\ LET p == Head(mq).pass IN
       passes' = [passes EXCEPT ![p] =
                    IF mermaidReady = "rejected" \/ ~windowMermaid
                    THEN [at |-> "over", nodes |-> {}]
                    ELSE [passes[p] EXCEPT !.at = "run"]]
  /\ warned' = (warned \/ mermaidReady = "rejected")
  /\ mq' = Tail(mq)
  /\ UNCHANGED <<mainVars, concVars, runScheduled, mermaidReady, windowMermaid,
                 contextTarget, dom, styles, events>>

\* mermaid.run({ querySelector: ".mermaid" }) draws the containers it has not
\* processed before, and its promise settles; a run that fails may have
\* processed them all the same
RunSettles(p) ==
  /\ mq = <<>> /\ passes[p].at = "run"
  /\ \E ok \in BOOLEAN, processed \in BOOLEAN :
       LET d == IF ok \/ processed
                THEN [n \in DOMAIN dom |-> IF dom[n] = "pending" THEN "drawn" ELSE dom[n]]
                ELSE dom
       IN /\ dom' = d
          /\ mq' = Append(Notify(mq, d # dom), Item("afterRun", p, ok))
  /\ UNCHANGED <<mainVars, concVars, warned, runScheduled, mermaidReady, windowMermaid,
                 contextTarget, styles, passes, events>>

\* ... leaving the containers as they are
AfterRun_noMark ==
  /\ mq # <<>> /\ Head(mq).kind = "afterRun"
  /\ LET p == Head(mq).pass IN
       /\ passes' = [passes EXCEPT ![p] = [at |-> "over", nodes |-> {}]]
       /\ dom' = dom
  /\ warned' = (warned \/ ~Head(mq).ok)
  /\ mq' = Tail(mq)
  /\ UNCHANGED <<mainVars, concVars, runScheduled, mermaidReady, windowMermaid,
                 contextTarget, styles, events>>

\* after await mermaid.run(...): nodes.forEach(done), or the catch
AfterRun ==
  /\ mq # <<>> /\ Head(mq).kind = "afterRun"
  /\ LET p == Head(mq).pass IN
       /\ passes' = [passes EXCEPT ![p] = [at |-> "over", nodes |-> {}]]
       /\ dom' = IF Head(mq).ok
                 THEN [n \in DOMAIN dom |-> IF n \in passes[p].nodes THEN "done" ELSE dom[n]]
                 ELSE dom
  /\ warned' = (warned \/ ~Head(mq).ok)
  /\ mq' = Tail(mq)
  /\ UNCHANGED <<mainVars, concVars, runScheduled, mermaidReady, windowMermaid,
                 contextTarget, styles, events>>

\* a script of the page inserts an element
HostMutation ==
  /\ mq = <<>> /\ events < MaxEvents
  /\ \E n \in Nodes, kind \in {"code", "fenced", "div"} :
       /\ dom[n] = "none"
       /\ dom' = [dom EXCEPT ![n] = kind]
  /\ mq' = Notify(mq, TRUE)
  /\ events' = events + 1
  /\ UNCHANGED <<mainVars, concVars, warned, runScheduled, mermaidReady, windowMermaid,
                 contextTarget, styles, passes>>

\* contextmenu: contextTarget = event.target.closest("div"), or null
ContextMenu ==
  /\ mq = <<>> /\ events < MaxEvents
  /\ \E n \in Nodes \cup {0} :
       /\ n # 0 => dom[n] \in {"div", "pending", "drawn", "done"}
       /\ contextTarget' = n
  /\ events' = events + 1
  /\ UNCHANGED <<mainVars, concVars, warned, runScheduled, mermaidReady, windowMermaid,
                 mq, dom, styles, passes>>

\* keydown Alt+M with a context target: promoteToMermaid, renderMermaid
KeyDown ==
  /\ mq = <<>> /\ events < MaxEvents
  /\ contextTarget # 0
  /\ dom' = promoteToMermaid(dom, contextTarget)
  /\ LET r == renderMermaid(runScheduled, Notify(mq, TRUE)) IN
       runScheduled' = r.runScheduled /\ mq' = r.mq
  /\ events' = events + 1
  /\ UNCHANGED <<mainVars, concVars, warned, mermaidReady, windowMermaid, contextTarget, styles,
                 passes>>

ScriptNext ==
  \/ ScriptStart \/ ObserverCallback \/ RenderMicrotask \/ AfterLoad \/ AfterRun
  \/ LoadSettles \/ HostMutation \/ ContextMenu \/ KeyDown
  \/ \E p \in 1..Len(passes) : RunSettles(p)

ScriptSpec == ScriptInit /\ [][ScriptNext]_vars

\* The page's event loop runs every queued microtask; the script element of
\* ensureMermaidLoaded fires onload or onerror, and every mermaid.run settles.
\* Nothing obliges the page or the user to act.
FairScriptSpec ==
  /\ ScriptSpec
  /\ WF_vars(ScriptStart) /\ WF_vars(ObserverCallback) /\ WF_vars(RenderMicrotask)
  /\ WF_vars(AfterLoad) /\ WF_vars(AfterRun)
  /\ WF_vars(LoadSettles)
  /\ WF_vars(\E p \in 1..Len(passes) : RunSettles(p))


\* ------------------------------------------------------------ specification
Next ==
  \/ MainStart \/ MainFormat \/ MainBuild \/ MainWrite
  \/ MainAfterRender \/ MainUnlink \/ MainReturn \/ MainCatch
  \/ ExportStart \/ ExportResolveOutput \/ ExportRead \/ ExportBuild
  \/ ExportMkdir \/ ExportWrite \/ ExportAfterRender \/ ExportUnlink \/ ExportCatch
  \/ RenderImport \/ RenderLaunch \/ RenderNewPage \/ RenderGoto
  \/ RenderWaitPoll \/ RenderWaitDone \/ RenderWaitTimeout
  \/ RenderEvalOk \/ RenderEvalErr \/ RenderPdf \/ RenderFinally
  \/ BootstrapRun \/ RenderSettles \/ BootstrapThen \/ BootstrapCatch

Spec == Init /\ [][Next]_vars

\* The page's event loop runs a settled promise's reaction, and the printer's
\* awaited calls return.
FairSpec ==
  /\ Spec
  /\ WF_vars(BootstrapThen)
  /\ WF_vars(BootstrapCatch)

Finished == pc \in {"exited", "returned", "rejected"}

TypeOK ==
  /\ host \in {"cli", "editor"}
  /\ browser \in {"none", "open", "closed"}
  /\ exitCode \in {-1, 0, 1}
  /\ pdfCalled \in BOOLEAN
  /\ polls \in 0..(MaxTimeout + 1)
  /\ page.OK \in {"unset", "true", "false"}


\* ------------------------------------------------------------------ claims
PdfAtDestination ==
  loc.outPath \in DOMAIN files /\ files[loc.outPath].kind = "pdf"

SuccessOutcome ==
  /\ err = "none"
  /\ host = "cli" => exitCode = 0
  /\ host = "editor" => pc = "returned" /\ ~HasMsg("error", "export-failed")

\* C1: when the completion wait ends with __MERMAID_DONE still unset, the
\* printer throws TimeoutError; from then on page.pdf is never called and
\* nothing is written to the destination path, and the run ends as a failure
\* that reports the timeout.
C1_TimeoutIsFatal ==
  /\ [][(pc = "wait" /\ pc' # "wait" /\ ~page.DONE)
          => (err' = "TimeoutError" /\ pc' = "render_finally")]_vars
  /\ [](err = "TimeoutError"
          => /\ ~pdfCalled
             /\ pc \notin {"pdf", "evalOk", "evalErr"}
             /\ loc.outPath \notin written
             /\ loc.outPath \notin DOMAIN files)
  /\ [](Finished /\ err = "TimeoutError"
          => /\ host = "cli" => exitCode = 1 /\ msgs[Len(msgs)] = Msg("stderr", "fatal", "TimeoutError")
             /\ host = "editor" => msgs[Len(msgs)] = Msg("error", "export-failed", "TimeoutError"))

C1_Witness ==
  /\ Finished /\ err = "TimeoutError" /\ polls = loc.timeoutMs
  /\ ~page.DONE /\ ~pdfCalled /\ host = "cli" /\ exitCode = 1

C3_BrowserAlwaysClosed ==
  /\ browser = "open"
       => pc \in {"newPage", "goto", "wait", "evalOk", "evalErr", "pdf", "render_finally"}
  /\ pc \in {"newPage", "goto", "wait", "evalOk", "evalErr", "pdf", "render_finally"}
       => browser = "open"
  /\ Finished => browser # "open"
  /\ (Finished /\ err \in {"newPage-failed", "goto-failed", "evaluate-failed",
                           "pdf-failed", "TimeoutError"}) => browser = "closed"
  /\ (Finished /\ pdfCalled) => browser = "closed"

C3_Witness ==
  /\ Finished /\ browser = "closed"
  /\ err \in {"newPage-failed", "goto-failed", "evaluate-failed", "pdf-failed"}


\* A PDF export that got as far as writing its intermediate HTML file.
PdfRunDone == Finished /\ loc.tmpHtmlPath # NoPath

\* The HTML files the run has left on storage.
HtmlFilesLeft == {p \in DOMAIN files : files[p].kind = "html"}

\* "the input basename with its extension replaced by .html"
InputBasenameHtml == basename(loc.inputPath, extname(loc.inputPath)) \o <<".html">>

\* C4 as stated: after a PDF export, without retention no intermediate HTML
\* file is left; with retention exactly one is left and its name is the input
\* basename with the extension replaced by .html.
C4_Original ==
  PdfRunDone =>
    IF loc.keepHtml
    THEN \E p \in DOMAIN files :
           HtmlFilesLeft = {p} /\ basename(p, <<>>) = InputBasenameHtml
    ELSE HtmlFilesLeft = {}

\* C4 (amended): after a PDF export, whether printing succeeded or failed:
\* without retention the intermediate file's unlink has been attempted, and
\* the file is gone unless that unlink itself failed (its error is
\* swallowed); with retention no unlink is attempted and exactly one HTML file
\* is left, at the output path with a trailing .pdf (any case) removed and
\* .html appended -- the input basename only when --out is not given.
C4_IntermediateHtmlCleanup ==
  PdfRunDone =>
    IF loc.keepHtml
    THEN /\ loc.unlink = "none"
         /\ HtmlFilesLeft = {StripPdfSuffix(loc.outPath) \o <<".html">>}
         /\ loc.tmpHtmlPath = StripPdfSuffix(loc.outPath) \o <<".html">>
         /\ (host = "cli" /\ Get(args, "out") = JsUndef)
              => basename(loc.tmpHtmlPath, <<>>) = InputBasenameHtml
    ELSE /\ loc.unlink \in {"done", "failed"}
         /\ loc.unlink = "done" => HtmlFilesLeft = {}
         /\ loc.unlink = "failed" => HtmlFilesLeft = {loc.tmpHtmlPath}
         /\ loc.tmpHtmlPath[1] = "/tmp/"

\* a failed print with retention, the output path given explicitly
C4_Witness ==
  /\ PdfRunDone /\ loc.keepHtml /\ err = "pdf-failed"
  /\ loc.outPath = <<"/out/", "final", ".PDF">>
  /\ HtmlFilesLeft = {<<"/out/", "final", ".html">>}

\* buildHtml has just returned its document, which is not assigned again.
JustBuilt == loc.html.made /\ pc \in {"main_write", "export_mkdir"}

\* The input document that the editor command saves before it exports.
SavedInput == IF host = "editor" THEN {loc.inputPath} ELSE {}

\* The run has produced nothing: no document, no output file or intermediate
\* HTML file, no browser.
NothingProduced ==
  /\ ~loc.html.made
  /\ written \subseteq SavedInput /\ DOMAIN files \subseteq SavedInput
  /\ browser = "none" /\ ~page.loaded

\* C5 as stated: a command line whose --format value is anything other than
\* html or pdf never assembles the document, writes a file or launches a
\* browser, and exits non-zero.
C5_Original ==
  (host = "cli" /\ Get(args, "format").t = "string"
     /\ Get(args, "format").s \notin {<<"html">>, <<"pdf">>})
    => (NothingProduced /\ (Finished => exitCode # 0))

\* C5 (amended): the format is compared after lower-casing, and an empty
\* value counts as absent (html).  A command line whose --format value is
\* non-empty and, lower-cased, neither html nor pdf (or --format with no
\* value at all) never gets past the format check: the run exits with code 1
\* and produces nothing.
C5_BadFormatRejected ==
  (host = "cli" /\ FormatOf(args) \notin {<<"html">>, <<"pdf">>})
    => /\ pc \in {"main", "main_format", "exited"}
       /\ NothingProduced
       /\ Finished => (exitCode = 1 /\ err \in {"no-input", "input-not-found", "bad-format"})

C5_Witness ==
  /\ host = "cli" /\ Finished /\ err = "bad-format" /\ exitCode = 1
  /\ Get(args, "format") = JsTrue /\ NothingProduced

\* The run did what was asked: the HTML, or the complete PDF, is at the
\* output path.
RunSucceeded ==
  /\ loc.outPath # NoPath /\ loc.outPath \in DOMAIN files
  /\ \/ loc.format = <<"html">> /\ files[loc.outPath] = HtmlFile(loc.html)
     \/ loc.format = <<"pdf">> /\ files[loc.outPath].kind = "pdf"

\* C6: the command-line process exits 0 exactly when the run succeeded
\* (also with a reported diagram failure), and 1 for a missing input, an
\* invalid format, a missing runtime asset, a browser launch failure and a
\* render timeout.
C6_ExitCode ==
  (host = "cli" /\ Finished)
    => /\ exitCode \in {0, 1}
       /\ exitCode = 0 <=> RunSucceeded
       /\ (Len(args.pos) = 0 \/ env.inputKind # "file") => exitCode = 1
       /\ FormatOf(args) \notin {<<"html">>, <<"pdf">>} => exitCode = 1
       /\ env.mermaid \in {"missing", "unreadable"} => exitCode = 1
       /\ err \in {"launch-failed", "puppeteer-missing", "TimeoutError"} => exitCode = 1
       /\ (loc.mermaidOk = "false" /\ err = "none") => exitCode = 0
       /\ exitCode = 1 => msgs # <<>> /\ msgs[Len(msgs)].ch = "stderr"

C6_Witness ==
  /\ host = "cli" /\ Finished /\ exitCode = 1 /\ err = "launch-failed"
  /\ browser = "none" /\ ~RunSucceeded

\* C7: when the runtime script asset is missing or unreadable, buildHtml
\* throws and returns no document; the run writes nothing and launches no
\* browser.
C7_MissingRuntimeIsFatal ==
  /\ [](env.mermaid \in {"missing", "unreadable"}
          => /\ NothingProduced
             /\ pc \in {"main", "main_format", "main_build", "main_catch", "exited",
                        "export", "export_output", "export_read", "export_build",
                        "export_catch", "returned", "rejected"})
  /\ [][(pc \in {"main_build", "export_build"} /\ env.mermaid \in {"missing", "unreadable"})
          => (err' = "mermaid-missing" /\ pc' \in {"main_catch", "export_catch"}
              /\ loc' = loc)]_vars
  /\ [](loc.html.made => loc.html.mermaidJs = (IF env.mermaid = "empty" THEN "" ELSE env.mermaid))

C7_Witness ==
  /\ Finished /\ env.mermaid = "unreadable" /\ err = "mermaid-missing"
  /\ NothingProduced

\* C8: a missing stylesheet raises nothing: buildHtml returns the same
\* complete document as with the stylesheet installed, except that the
\* stylesheet text is empty, and the run goes on as it does with it.
C8_MissingCssDegrades ==
  /\ [][(pc \in {"main_build", "export_build"} /\ env.css = "missing"
           /\ env.mermaid \notin {"missing", "unreadable"})
          => (err' = "none" /\ pc' \in {"main_write", "export_mkdir"}
              /\ loc'.html.made /\ loc'.html.css = ""
              /\ loc'.html.mermaidJs = (IF env.mermaid = "empty" THEN "" ELSE env.mermaid))]_vars
  /\ [](JustBuilt
          => \A c \in CssAssets :
               LET r == buildHtml(loc.inputPath, env.markdown, loc.html.title,
                                  loc.html.theme, loc.html.securityLevel,
                                  [env EXCEPT !.css = c])
               IN  r.ok /\ [r.html EXCEPT !.css = loc.html.css] = loc.html)

C8_Witness ==
  /\ Finished /\ env.css = "missing" /\ loc.html.made /\ loc.html.css = ""
  /\ RunSucceeded /\ loc.format = <<"pdf">>


\* The bootstrap has nothing left to run: it ended synchronously, or its
\* promise reaction has run.
BootstrapSettled ==
  page.loaded /\ (page.promise = "none" \/ page.handled)

\* C9: on every path of the bootstrap on which the render pass settles, the
\* completion signal gets set (at once on the synchronous paths, by the
\* promise reaction otherwise, as long as the page lives); __MERMAID_OK is
\* true exactly when the render promise fulfilled, and __MERMAID_ERROR is
\* recorded only together with __MERMAID_OK false.
C9_SignalSetOnEveryPath ==
  /\ [](BootstrapSettled => page.DONE)
  /\ [](page.DONE => (page.OK = "true" <=> page.promise = "fulfilled"))
  /\ [](page.DONE => page.OK \in {"true", "false"})
  /\ [](page.ERROR # "unset" => (page.DONE /\ page.OK = "false"))
  /\ [](~page.DONE => (page.OK = "unset" /\ page.ERROR = "unset"))
  /\ [](page.js = "" /\ page.loaded => page.ERROR = "Mermaid failed to load")
  /\ ((page.promise \in {"fulfilled", "rejected"}) ~> (page.DONE \/ browser # "open"))

C9_Witness ==
  /\ page.DONE /\ page.promise = "rejected" /\ page.OK = "false"
  /\ page.js = "bare" /\ page.ERROR = "Error: Unknown Mermaid API (no run/init found)"

\* C10: markDone runs at most once per page load: __MERMAID_DONE goes from
\* unset to true once and stays, __MERMAID_OK and __MERMAID_ERROR never change
\* afterwards, and only the bootstrap's steps write them.
C10_SignalWrittenOnce ==
  /\ [](page.markDoneCalls <= 1)
  /\ [](page.DONE <=> page.markDoneCalls = 1)
  /\ [][page.DONE => (page'.DONE /\ page'.OK = page.OK /\ page'.ERROR = page.ERROR)]_vars
  /\ [][(page'.DONE # page.DONE \/ page'.OK # page.OK \/ page'.ERROR # page.ERROR)
          => (BootstrapRun \/ BootstrapThen \/ BootstrapCatch)]_vars

C10_Witness ==
  /\ Finished /\ page.DONE /\ page.markDoneCalls = 1 /\ page.handled
  /\ page.OK = "true" /\ page.ERROR = "unset" /\ loc.mermaidOk = "true"

\* The block tokens of the input document.
Tokens == mdParse(env.markdown)

\* The first whitespace-separated word of an info string is exactly "mermaid".
FirstWordIsMermaid(info) ==
  \E i \in 1..Len(info) :
    /\ info[i] = "mermaid"
    /\ \A k \in 1..(i - 1) : info[k] \in Whitespace
    /\ i = Len(info) \/ info[i + 1] \in Whitespace

\* What the browser's parser makes of escaped text: each character reference
\* becomes its character.
EntityNames == {"amp;", "lt;", "gt;", "quot;", "#39;"}
EntityChar(name) ==
  CASE name = "amp;" -> "&"
    [] name = "lt;" -> "<"
    [] name = "gt;" -> ">"
    [] name = "quot;" -> "\""
    [] OTHER -> "'"

RECURSIVE decodeHtml(_)
decodeHtml(s) ==
  IF s = <<>> THEN <<>>
  ELSE IF Head(s) = "&" /\ Len(s) >= 2 /\ s[2] \in EntityNames
  THEN <<EntityChar(s[2])>> \o decodeHtml(SubSeq(s, 3, Len(s)))
  ELSE <<Head(s)>> \o decodeHtml(Tail(s))

HasRaw(s, chars) == \E i \in 1..Len(s) : s[i] \in chars

IsContainer(piece) == piece.tag = "pre" /\ piece.class = <<"mermaid">>

\* The diagram containers of the assembled body, by raw content.
ContainerContents(body) ==
  {decodeHtml(body[i].inner) : i \in {k \in 1..Len(body) : IsContainer(body[k])}}

\* The rule for fenced blocks, and the count of containers it emits.
FenceRuleHolds ==
  \A body \in {loc.html.body}, toks \in {Tokens} :
    /\ Len(body) = Len(toks)
    /\ \A i \in 1..Len(toks) :
         toks[i].type = "fence" =>
           IF FirstWordIsMermaid(toks[i].info)
           THEN IsContainer(body[i]) /\ decodeHtml(body[i].inner) = toks[i].content
           ELSE body[i].tag = "pre>code" /\ ~IsContainer(body[i])
    /\ \A i \in 1..Len(toks) : IsContainer(body[i]) => toks[i].type = "fence"
    /\ Cardinality({i \in 1..Len(body) : IsContainer(body[i])})
         = Cardinality({i \in 1..Len(toks) :
                          toks[i].type = "fence" /\ FirstWordIsMermaid(toks[i].info)})

\* C11 as stated: the rule for fenced blocks, and for the example document
\* exactly one diagram container, whose raw content is the two lines joined
\* by a line feed.
C11_Original ==
  JustBuilt =>
    /\ FenceRuleHolds
    /\ env.markdown = ExampleMarkdown =>
         /\ Cardinality({i \in 1..Len(loc.html.body) : IsContainer(loc.html.body[i])}) = 1
         /\ ContainerContents(loc.html.body) = {FlowchartLine \o <<"\n">> \o EdgeLine}

\* C11 (amended): a fenced block becomes a diagram container carrying its
\* escaped literal content exactly when the first whitespace-separated word of
\* its info string is "mermaid"; every other fenced block gets the default
\* code rendering; the fence rule emits as many containers as there are such
\* blocks.  The content of a block is its lines, each followed by its line
\* feed: for the example document there is exactly one container, and its raw
\* content is the two lines each ended by a line feed.
C11_FenceRule ==
  JustBuilt =>
    /\ FenceRuleHolds
    /\ env.markdown = ExampleMarkdown =>
         /\ Cardinality({i \in 1..Len(loc.html.body) : IsContainer(loc.html.body[i])}) = 1
         /\ ContainerContents(loc.html.body)
              = {FlowchartLine \o <<"\n">> \o EdgeLine \o <<"\n">>}

\* two fences: the tag followed by attributes, and the tag as second word
C11_Witness ==
  /\ JustBuilt /\ Len(Tokens) = 2
  /\ Tokens[1].info = <<" ", "mermaid", " ", "{a}">> /\ IsContainer(loc.html.body[1])
  /\ Tokens[2].info = <<"js", " ", "mermaid">> /\ loc.html.body[2].tag = "pre>code"
  /\ Tokens[1].content = FlowchartLine \o <<"\n">> \o EdgeLine \o <<"\n">>

\* C12: escaping is lossless.  The escaped text of every diagram container
\* decodes to the block's content and holds no raw <, > or double quote; the
\* escaped title decodes to the title and holds no raw <, >, double quote or
\* apostrophe.  A source text that already holds an entity decodes to itself.
C12_EscapingIsLossless ==
  JustBuilt =>
    /\ \A toks \in {Tokens} : \A i \in 1..Len(loc.html.body) :
         IsContainer(loc.html.body[i]) =>
           /\ i <= Len(toks)
           /\ decodeHtml(loc.html.body[i].inner) = toks[i].content
           /\ ~HasRaw(loc.html.body[i].inner, {"<", ">", "\""})
    /\ decodeHtml(loc.html.titleHtml) = loc.html.title
    /\ ~HasRaw(loc.html.titleHtml, {"<", ">", "\"", "'"})

\* the source text &lt;< : the entity stays an entity, the character is escaped
C12_Witness ==
  /\ JustBuilt /\ env.markdown = FenceDoc(<<"&", "lt;", "<">>)
  /\ loc.html.body[1].inner = <<"&", "amp;", "lt;", "&", "lt;", "\n">>
  /\ decodeHtml(loc.html.body[1].inner) = <<"&", "lt;", "<", "\n">>
  /\ loc.html.title = <<"&", "lt;", "<">>
  /\ loc.html.titleHtml = <<"&", "amp;", "lt;", "&", "lt;">>

\* The input has no diagram block: no fenced block tagged mermaid.
NoDiagramBlocks ==
  \A toks \in {Tokens} : \A i \in 1..Len(toks) :
    toks[i].type = "fence" => ~FirstWordIsMermaid(toks[i].info)

\* The input has no markup of its own that makes an element of class mermaid.
NoDiagramMarkup ==
  \A toks \in {Tokens} : \A i \in 1..Len(toks) :
    toks[i].type = "html_block" => CountSub(toks[i].content, ClassMermaid) = 0

\* C13 as stated: for an input with no diagram block the fence rule emits no
\* container, and the bootstrap's render pass works on no element.
C13_Original ==
  /\ (JustBuilt /\ NoDiagramBlocks)
       => \A i \in 1..Len(loc.html.body) : ~IsContainer(loc.html.body[i])
  /\ (page.loaded /\ page.rendered # 0) => ~NoDiagramBlocks

\* C13 (amended): for an input with no diagram block the fence rule emits no
\* container; if the input also has no markup of its own of class mermaid,
\* the page has no diagram element and the bootstrap, which still initializes
\* the runtime and invokes its render pass once, works on no element.  The
\* pass never works on more elements than the page has.
C13_NoDiagramNoWork ==
  /\ (JustBuilt /\ NoDiagramBlocks)
       => \A i \in 1..Len(loc.html.body) : ~IsContainer(loc.html.body[i])
  /\ (page.loaded /\ (page.containers # 0 \/ page.rendered # 0))
       => ~(NoDiagramBlocks /\ NoDiagramMarkup)
  /\ page.rendered \in {0, page.containers}
  /\ page.initCalls <= 1 /\ page.runCalls <= 1
  /\ page.rendered > 0 => page.runCalls = 1

\* a document whose only block is a fence tagged js, printed
C13_Witness ==
  /\ Finished /\ page.loaded /\ NoDiagramBlocks /\ NoDiagramMarkup
  /\ Len(Tokens) = 1 /\ Tokens[1].type = "fence" /\ Tokens[1].info = <<"js", " ", "mermaid">>
  /\ page.initCalls = 1 /\ page.runCalls = 1 /\ page.rendered = 0 /\ page.OK = "true"

\* The option was left out: on the command line, or (the editor) left at its
\* default.
ThemeOmitted ==
  IF host = "cli" THEN Get(args, "mermaid-theme") = JsUndef
  ELSE ed.mermaidTheme = <<"default">>
SecurityOmitted ==
  IF host = "cli" THEN Get(args, "security") = JsUndef
  ELSE ed.securityLevel = <<"strict">>

\* C14: whenever the bootstrap has initialized the diagram runtime, the theme
\* it passed is one of default, dark, forest, neutral and the security level
\* one of strict, loose, antiscript; with the option left out they are default
\* and strict.
C14_ThemeAndSecurityValues ==
  page.initCalls > 0 =>
    /\ page.initTheme \in {<<"default">>, <<"dark">>, <<"forest">>, <<"neutral">>}
    /\ page.initSecurity \in {<<"strict">>, <<"loose">>, <<"antiscript">>}
    /\ ThemeOmitted => page.initTheme = <<"default">>
    /\ SecurityOmitted => page.initSecurity = <<"strict">>

\* The intermediate HTML path that a run with retention derives.
KeptPath(r) == StripPdfSuffix(runs[r].outPath) \o <<".html">>

\* Two runs that both keep their HTML and derive the same path for it.
SharePath(r, q) ==
  r # q /\ runs[r].keepHtml /\ runs[q].keepHtml /\ KeptPath(r) = KeptPath(q)

\* C15 as stated: in every interleaving no run writes, reads or deletes the
\* intermediate HTML file of another run, and none closes another's browser.
C15_Original == foreign = {}

\* C15 (amended): every run launches and closes its own browser process, and
\* a run without retention owns its intermediate HTML file, which no other
\* run writes, reads or deletes.  Two runs with retention whose output paths
\* derive the same HTML path share that one file: the later write replaces
\* the earlier, and a browser may load the other run's document.
C15_RunsAreIndependent ==
  /\ \A e \in foreign : e.op \in {"write", "read"} /\ SharePath(e.by, e.of)
  /\ \A r, q \in Runs :
       (r # q /\ runs[r].tmpHtmlPath # NoPath /\ runs[r].tmpHtmlPath = runs[q].tmpHtmlPath)
         => SharePath(r, q)
  /\ \A r, q \in Runs :
       (r # q /\ runs[r].browser # 0) => runs[r].browser # runs[q].browser
  /\ \A r \in Runs :
       /\ (runs[r].browser # 0 /\ runs[r].pc \in {"after_render", "done"})
            => procs[runs[r].browser] = "exited"
       /\ runs[r].pc \in {"goto", "print", "render_finally"}
            => procs[runs[r].browser] = "running"
       /\ (runs[r].loaded # 0 /\ runs[r].loaded # r) => SharePath(r, runs[r].loaded)
       /\ (~runs[r].keepHtml /\ runs[r].pc \in {"import", "launch", "goto", "print",
                                                "render_finally", "after_render"})
            => (runs[r].tmpHtmlPath \in DOMAIN disk /\ disk[runs[r].tmpHtmlPath] = r)

\* two runs without retention and with the same output path, both printing
C15_Witness ==
  /\ MaxRuns >= 2
  /\ runs[1].pc = "print" /\ runs[2].pc = "print"
  /\ ~runs[1].keepHtml /\ ~runs[2].keepHtml /\ runs[1].outPath = runs[2].outPath
  /\ runs[1].tmpHtmlPath # runs[2].tmpHtmlPath
  /\ runs[1].loaded = 1 /\ runs[2].loaded = 2
  /\ procs[runs[1].browser] = "running" /\ procs[runs[2].browser] = "running"
  /\ foreign = {}

\* The positions after renderPdfFromHtmlFile has returned or thrown.
AfterRenderPcs ==
  {"after_render", "main_unlink", "export_unlink", "main_return", "main_catch",
   "export_catch", "exited", "returned"}

\* C16: a PDF export is strictly linear: the intermediate HTML is written
\* before the browser is launched; the page has loaded before the completion
\* signal is read; __MERMAID_OK and __MERMAID_ERROR are read only after
\* __MERMAID_DONE was seen true; page.pdf is called only after both reads; the
\* browser is closed once the printer is left; and the intermediate HTML is
\* removed only when no browser is open.
C16_StrictlyLinear ==
  /\ (pc = "launch" \/ browser # "none")
       => (loc.tmpHtmlPath # NoPath /\ loc.tmpHtmlPath \in written)
  /\ (pc \in {"import", "launch", "newPage", "goto"} \/ browser = "open")
       => loc.tmpHtmlPath \in DOMAIN files
  /\ (pc \in {"wait", "evalOk", "evalErr", "pdf"} \/ polls > 0) => page.loaded
  /\ loc.mermaidOk # "unread" => page.DONE
  /\ loc.mermaidErr # "unread" => (page.DONE /\ loc.mermaidOk # "unread")
  /\ (pc = "pdf" \/ pdfCalled) => (loc.mermaidOk # "unread" /\ loc.mermaidErr # "unread")
  /\ pc \in {"newPage", "goto", "wait", "evalOk", "evalErr", "pdf", "render_finally"}
       => browser = "open"
  /\ pc \in AfterRenderPcs => browser # "open"
  /\ loc.unlink # "none" => browser # "open"

\* a finished PDF export that went through every step
C16_Witness ==
  /\ Finished /\ loc.format = <<"pdf">>
  /\ page.loaded /\ page.DONE
  /\ loc.mermaidOk = "false" /\ loc.mermaidErr # "unread"
  /\ pdfCalled /\ browser = "closed" /\ loc.unlink = "done"
  /\ loc.tmpHtmlPath \in written /\ loc.tmpHtmlPath \notin DOMAIN files

\* The format of the export, known from the command or from --format.
ExportFormat == IF host = "editor" THEN ed.format ELSE loc.format

\* The document that buildHtml assembles from the input, the title, the
\* display options and the installed assets, and from nothing else.
ExpectedHtml ==
  LET assets == [css |-> env.css, mermaid |-> env.mermaid] IN
  IF host = "editor"
  THEN buildHtml(loc.inputPath, env.markdown, basename(loc.inputPath, <<>>),
                 ed.mermaidTheme, ed.securityLevel, assets).html
  ELSE buildHtml(loc.inputPath, env.markdown,
                 IF Truthy(Get(args, "title")) THEN String(Get(args, "title"))
                 ELSE basename(loc.inputPath, <<>>),
                 String(Or(Get(args, "mermaid-theme"), JsStr(<<"default">>))),
                 String(Or(Get(args, "security"), JsStr(<<"strict">>))), assets).html

\* What an export with format html does besides writing files.
HtmlExportFrame ==
  /\ browser = "none" /\ ~pdfCalled /\ page = NoPage /\ polls = 0
  /\ pc \notin {"import", "launch", "newPage", "goto", "wait", "evalOk", "evalErr",
                "pdf", "render_finally", "after_render", "main_unlink", "export_unlink"}
  /\ loc.tmpHtmlPath = NoPath /\ loc.unlink = "none"
  /\ (HasMsg("stderr", "wrote-html") \/ HasMsg("info", "exported-html"))
       => (/\ loc.outPath \in written
           /\ loc.outPath \in DOMAIN files
           /\ files[loc.outPath] = HtmlFile(ExpectedHtml))

\* C17 as stated: an export with format html writes the output path and no
\* other file.
C17_Original ==
  ExportFormat = <<"html">> => (written \subseteq {loc.outPath} /\ HtmlExportFrame)

\* C17 (amended): besides the input document that the editor command saves
\* first, an export with format html writes exactly one file, the output
\* path: no intermediate HTML file, no load of the browser-automation
\* library, no browser, and a result that is the assembled document whatever
\* the timeout and the retention option are.
C17_HtmlExportWritesOneFile ==
  ExportFormat = <<"html">>
    => (/\ written \subseteq ({loc.outPath} \cup SavedInput)
        /\ DOMAIN files \subseteq ({loc.outPath} \cup SavedInput)
        /\ HtmlExportFrame)

\* a finished HTML export from the command line, run with --keep-html
C17_Witness ==
  /\ host = "cli" /\ loc.format = <<"html">> /\ Truthy(Get(args, "keep-html"))
  /\ exitCode = 0 /\ written = {loc.outPath}
  /\ files[loc.outPath] = HtmlFile(ExpectedHtml)

\* The messages shown on channel ch.
Shown(ch) == {i \in 1..Len(msgs) : msgs[i].ch = ch}

\* What the command does with an error caught by its try block.
ErrorIsReported ==
  /\ Cardinality(Shown("error")) <= 1
  /\ err = "none" => Shown("error") = {}
  /\ (Finished /\ err # "none" /\ pc # "rejected")
       => (/\ pc = "returned"
           /\ Cardinality(Shown("error")) = 1
           /\ msgs[Len(msgs)] = Msg("error", "export-failed", err)
           /\ Shown("info") = {})

\* The error message is about to be shown, or was shown.
ErrorShown == pc = "export_catch" \/ Shown("error") # {}

\* C18 as stated: exportMarkdown never rejects, reports every error with one
\* error message and no success message, and without retention the
\* intermediate HTML file is gone when the error message is shown.
C18_Original ==
  host = "editor"
    => (/\ pc # "rejected"
        /\ ErrorIsReported
        /\ (ErrorShown /\ ~ed.keepHtml) => loc.tmpHtmlPath \notin DOMAIN files)

\* C18 (amended): every error raised inside the try block of exportMarkdown
\* (reading the input, assembling the document, creating the output folder,
\* writing the HTML, printing the PDF) is caught and reported as exactly one
\* error message, with no success message; the command rejects only when
\* saving the untitled input document fails, before the try block; and
\* without retention the intermediate HTML file is gone when the error
\* message is shown unless its removal failed, which is ignored.
C18_ErrorsAreReported ==
  host = "editor"
    => (/\ pc = "rejected" => (err = "save-failed" /\ ed.doc = "untitled" /\ msgs = <<>>)
        /\ err = "save-failed" => pc = "rejected"
        /\ ErrorIsReported
        /\ (ErrorShown /\ ~ed.keepHtml /\ loc.unlink # "failed")
             => loc.tmpHtmlPath \notin DOMAIN files
        /\ (ErrorShown /\ ~ed.keepHtml /\ loc.tmpHtmlPath \in written)
             => loc.unlink # "none")

\* a print that timed out, reported once, with the intermediate HTML removed
C18_Witness ==
  /\ host = "editor" /\ pc = "returned" /\ err = "TimeoutError"
  /\ Cardinality(Shown("error")) = 1 /\ Shown("info") = {}
  /\ ~ed.keepHtml /\ loc.unlink = "done"
  /\ loc.tmpHtmlPath \in written /\ loc.tmpHtmlPath \notin DOMAIN files

\* C19: the render passes of the content script are debounced: at most one
\* render microtask is queued at any time, and runScheduled is true exactly
\* while a queued render microtask has not started.
C19_Debounced ==
  /\ Cardinality(Queued("render")) <= 1
  /\ runScheduled <=> (Queued("render") # {})

\* a render microtask queued behind the observer's callback after a key event
C19_Witness ==
  /\ runScheduled /\ Cardinality(Queued("render")) = 1
  /\ Queued("observer") # {}
  /\ mq[1].kind = "observer"
  /\ events > 0 /\ passes # <<>>

\* The passes between their start and their end.
InProgress == {p \in 1..Len(passes) : passes[p].at \in {"load", "run"}}

\* C20: at most one render pass of the content script is in progress at any
\* time: no pass starts while an earlier one awaits the library or mermaid.run.
C20_OnePassAtATime == Cardinality(InProgress) <= 1

\* Nothing of the content script is queued or in progress.
Quiet == mq = <<>> /\ InProgress = {} /\ ~runScheduled

\* Every pass that has ended reached mermaid.run, and its run succeeded: the
\* library defined window.mermaid and the catch block never ran.
RunsSucceeded == ~warned /\ (mermaidReady = "resolved" => windowMermaid)

\* The script comes to rest and stays there until the page or the user acts;
\* at rest after successful runs every container is marked done.
ComesToRest ==
  /\ <>[]Quiet
  /\ [][Quiet => (Quiet' \/ events' = events + 1)]_vars
  /\ [](Quiet /\ RunsSucceeded => NotDone(dom) = {})

\* C21 as stated: the script comes to rest, and a container marked done is
\* never replaced or marked again.
C21_Original ==
  /\ ComesToRest
  /\ [][\A n \in DOMAIN dom : dom[n] = "done" => dom'[n] = "done"]_vars

\* C21 (amended): the script comes to rest, and no render pass replaces or
\* marks again a container marked done; only Alt+M on that container marks
\* it pending again.
C21_Quiesces ==
  /\ ComesToRest
  /\ [][\A n \in DOMAIN dom :
          (dom[n] = "done" /\ dom'[n] # "done")
            => (n = contextTarget /\ events' = events + 1 /\ dom'[n] = "drawn"
                /\ runScheduled')]_vars

\* at rest after successful passes and every event, with every element a
\* container marked done
C21_Witness ==
  /\ Quiet /\ passes # <<>> /\ RunsSucceeded
  /\ events = MaxEvents /\ styles /\ windowMermaid
  /\ \A n \in DOMAIN dom : dom[n] = "done"

====
